---- MODULE Spec2Model ----
(***************************************************************************)
(* Model of the CLARIX analysis orchestration pipeline                     *)
(* (server/src/services/credibility.service.js and its collaborators).     *)
(*                                                                         *)
(* Numbers: scores are integers; confidences and ML probabilities are      *)
(* numbers with two decimals and are carried in hundredths (0.5 -> 50,     *)
(* 61.5 % -> 6150).  Every await of the JavaScript code is one action:     *)
(* the code between two awaits runs atomically on the Node event loop.     *)
(***************************************************************************)
EXTENDS Integers, Sequences, FiniteSets, TLC

\* ------------------------------------------------------------------ bounds
MaxCalls == 2          \* analyzeUrl / analyzeText calls per behaviour
MaxClaims == 1         \* claims returned by one extractClaims call
MaxTokens == 3         \* tokens of a raw text handed to parseText
MaxBlocks == 6         \* 100-character blocks of a page's content
MaxParams == 2         \* query parameters of a URL
MaxPrior == 2          \* AnalysisResult rows earlier runs left per fingerprint
MaxStored == 2         \* extracted claims handed to storeClaims
MaxClock == 4          \* ticks of Date.now() the cache service is watched for
MaxTtl == 2            \* longest ttl, in ticks, handed to CacheService.set
MaxVerifications == 2  \* verifications the verifier hands back
UnitScoreSpan == 20    \* the scoring engine is fed scores from -Span to 100+Span

\* --------------------------------------------------------------- constants
lowConfidenceThreshold == 50   \* config.scoring.lowConfidenceThreshold = 0.5
attempts == 3                  \* defaultJobOptions.attempts of the analysis queue

Null == "null"

Abs(x) == IF x < 0 THEN -x ELSE x
Sign(x) == IF x > 0 THEN 1 ELSE IF x < 0 THEN -1 ELSE 0
Max(x, y) == IF x >= y THEN x ELSE y
Min(x, y) == IF x <= y THEN x ELSE y

RECURSIVE Pow2(_)
Pow2(n) == IF n <= 0 THEN 1 ELSE 2 * Pow2(n - 1)

\* ------------------------------------------------- IEEE-754 double blending
(* Math.round(a * 0.7 + b * 0.3) for integers a, b, evaluated as JavaScript *)
(* evaluates it: 0.7 and 0.3 are the doubles M7 / 2^53 and M3 / 2^54 with   *)
(* 10*M7 = 7*2^53 - 4 and 10*M3 = 3*2^54 - 2, each product and the sum are  *)
(* rounded to 53 bits (ties to even), and Math.round rounds ties up.  The   *)
(* result differs from the exact round-half-up only when 7a+3b ends in 5,   *)
(* and then by the sign of the accumulated rounding error, which depends    *)
(* only on the low bits of a*M7 and b*M3: M7 = ...666 and M3 = ...333 hex.  *)
FloatWindow == 4096
M7Low == 1638          \* 0x16666666666666 % 4096
M3Low == 819           \* 0x13333333333333 % 4096

\* floor(log2(num/den)) for num/den > 0 between 2^-6 and 2^12; tie: the value
\* is num/den + dev * tiny, so at num/den = 2^k the sign of dev decides.
RECURSIVE BinadeFrom(_, _, _, _)
BinadeFrom(k, num, den, dev) ==
    LET lhs == num * 64
        rhs == den * Pow2(k + 1 + 6)
    IN IF lhs > rhs \/ (lhs = rhs /\ dev >= 0)
       THEN BinadeFrom(k + 1, num, den, dev)
       ELSE k
Binade(num, den, dev) == BinadeFrom(-6, num, den, dev)

\* Round-to-nearest-even of an integer X to a multiple of q, given res = X % 2q:
\* the adjustment to add to X.
RoundNearestEven(res, q) ==
    IF q = 1 THEN 0
    ELSE LET low == res % q
             odd == (res \div q) % 2
         IN IF 2 * low < q THEN -low
            ELSE IF 2 * low > q THEN q - low
            ELSE IF odd = 0 THEN -low ELSE q - low

\* D with 10 * 2^54 * fl(fl(a*0.7) + fl(b*0.3)) = (7a + 3b) * 2^54 + D, b >= 0.
FloatDeviation(a, b) ==
    LET sa == Sign(a)
        A  == Abs(a)
        q1 == IF A > 0 THEN Pow2(Max(0, Binade(7 * A, 10, -1) + 1)) ELSE 1
        r1 == IF A > 0 THEN RoundNearestEven((A * M7Low) % (2 * q1), q1) ELSE 0
        q2 == IF b > 0 THEN Pow2(Max(0, Binade(3 * b, 10, -1) + 2)) ELSE 1
        r2 == IF b > 0 THEN RoundNearestEven((b * M3Low) % (2 * q2), q2) ELSE 0
        d  == sa * (20 * r1 - 8 * A) + (10 * r2 - 2 * b)
        E  == 7 * a + 3 * b
        sN == IF E # 0 THEN Sign(E) ELSE Sign(d)
        Nm == (2 * sa * (((A * M7Low) % FloatWindow) + r1)
               + ((b * M3Low) % FloatWindow) + r2) % FloatWindow
        Na == IF sN < 0 THEN (FloatWindow - Nm) % FloatWindow ELSE Nm
        q3 == IF E # 0 THEN Pow2(Max(0, Binade(Abs(E), 10, sN * d) + 2)) ELSE 1
        r3 == IF E # 0 THEN RoundNearestEven(Na % (2 * q3), q3) ELSE 0
    IN d + 10 * sN * r3

\* Math.round(a * 0.7 + b * 0.3)
JsBlend(a, b) ==
    LET E == 7 * a + 3 * b
        base == (E + 5) \div 10
    IN IF (E + 5) % 10 = 0 /\ FloatDeviation(a, b) < 0 THEN base - 1 ELSE base

\* Math.round(x) of a number with two decimals, x given in hundredths.
MathRoundHundredths(h) == (h + 50) \div 100

\* ------------------------------------------------------------ option values
\* A JavaScript value that may be null/undefined is a sequence of length <= 1.
None == << >>
Some(x) == << x >>
IsSome(o) == Len(o) = 1
Get(o) == o[1]

\* ------------------------------------------- score blending & classification
ContentTypes == {"NEWS", "OPINION", "SATIRE", "BREAKING"}

Clamp(x) == Max(0, Min(100, x))

\* The breaking-news case setting the confidence to the ceiling outright.
adjustScoreCeilingOnly(score, confidence, contentType) ==
    [score |-> score,
     confidence |->
        CASE contentType = "SATIRE" -> 0
          [] contentType = "BREAKING" -> lowConfidenceThreshold
          [] OTHER -> confidence,
     contentType |-> contentType,
     warning |->
        CASE contentType = "SATIRE" -> "satire"
          [] contentType = "BREAKING" -> "breaking"
          [] contentType = "OPINION" -> "opinion"
          [] OTHER -> Null]

\* adjustScoreForContentType(score, confidence, contentType)
adjustScoreForContentType(score, confidence, contentType) ==
    [score |-> score,
     confidence |->
        CASE contentType = "SATIRE" -> 0
          [] contentType = "BREAKING" -> Min(confidence, lowConfidenceThreshold)
          [] OTHER -> confidence,
     contentType |-> contentType,
     warning |->
        CASE contentType = "SATIRE" -> "satire"
          [] contentType = "BREAKING" -> "breaking"
          [] contentType = "OPINION" -> "opinion"
          [] OTHER -> Null]

\* A blend that truncates (Math.floor) instead of rounding.
BlendScoreFloor(adjusted, mlPrediction) ==
    IF IsSome(mlPrediction)
    THEN LET mlScore == MathRoundHundredths(Get(mlPrediction).real_probability)
         IN Clamp((7 * adjusted + 3 * mlScore) \div 10)
    ELSE adjusted

\* performAnalysis step 7b: blend the ML prediction into the adjusted score.
\* mlPrediction is an option of [label, real_probability (hundredths)].
BlendScore(adjusted, mlPrediction) ==
    IF IsSome(mlPrediction)
    THEN LET mlScore == MathRoundHundredths(Get(mlPrediction).real_probability)
         IN Clamp(JsBlend(adjusted, mlScore))
    ELSE adjusted

\* Tier boundaries taken as strict (score > 90, score > 60).
getScoreCategoryStrict(score) ==
    IF score > 90
    THEN [category |-> "authorized", label |-> "Authorized", badge |-> "VERIFIED",
          extensionAction |-> "show_blue_badge", feedVisible |-> TRUE]
    ELSE IF score > 60
    THEN [category |-> "suspicious", label |-> "Suspicious", badge |-> "UNVERIFIED",
          extensionAction |-> "show_red_badge", feedVisible |-> TRUE]
    ELSE [category |-> "flagged", label |-> "Flagged as Fake", badge |-> "FAKE",
          extensionAction |-> "show_overlay", feedVisible |-> FALSE]

\* getScoreCategory(score)
getScoreCategory(score) ==
    IF score >= 90
    THEN [category |-> "authorized", label |-> "Authorized", badge |-> "VERIFIED",
          extensionAction |-> "show_blue_badge", feedVisible |-> TRUE]
    ELSE IF score >= 60
    THEN [category |-> "suspicious", label |-> "Suspicious", badge |-> "UNVERIFIED",
          extensionAction |-> "show_red_badge", feedVisible |-> TRUE]
    ELSE [category |-> "flagged", label |-> "Flagged as Fake", badge |-> "FAKE",
          extensionAction |-> "show_overlay", feedVisible |-> FALSE]

\* mapVerdict(score).label
mapVerdict(score) ==
    IF score >= 70 THEN "Credible"
    ELSE IF score >= 45 THEN "Uncertain"
    ELSE "Misleading"

\* formatAnalysisResult(article, analysisResult, claims, credibilityDetails,
\* mlPrediction): the fields of the three output shapes that depend on the
\* pipeline.  claimRows is the sequence of stored ClaimRecord ids handed in
\* (the default [] when the caller passes none).
formatAnalysisResult(article, analysisResult, claimRows, mlPrediction) ==
    LET scoreCategory == getScoreCategory(analysisResult.score)
    IN [resultId    |-> analysisResult.id,
        articleId   |-> article.id,
        contentType |-> article.contentType,
        score       |-> analysisResult.score,
        verdict     |-> mapVerdict(analysisResult.score),
        trustScore  |-> analysisResult.score,
        confidence  |-> analysisResult.confidence,
        category    |-> scoreCategory.category,
        badge       |-> scoreCategory.badge,
        action      |-> scoreCategory.extensionAction,
        showOverlay |-> scoreCategory.category = "flagged",
        showWarning |-> scoreCategory.category = "suspicious",
        overlayMessage |-> IF scoreCategory.category = "flagged"
                           THEN "flagged as potentially fake news" ELSE Null,
        warningMessage |-> IF scoreCategory.category = "suspicious"
                           THEN "could not be fully verified" ELSE Null,
        claimsTotal |-> analysisResult.factualClaims,
        claimsVerified |-> analysisResult.verifiedClaims,
        claimDetails |-> claimRows,
        mlPrediction |-> mlPrediction]

\* ------------------------------------------------------------- collaborators
Calls == 1 .. MaxCalls

\* The inputs of the behaviours: one URL and one raw text, with the fingerprint
\* generateUrlHash / parseText give them and the content type the parser detects.
Inputs == {[kind |-> "URL", fp |-> "u1", contentType |-> "NEWS"],
           [kind |-> "TEXT", fp |-> "t1", contentType |-> "BREAKING"]}
Fingerprints == {in.fp : in \in Inputs}

\* Error messages are sequences of phrases; message.includes(p) is membership.
Includes(message, phrase) == \E i \in 1 .. Len(message) : message[i] = phrase

\* ------------------------------------------------------------ content parser
(* A string is a sequence of tokens: whitespace, plain words and the phrases  *)
(* the parser looks for.  includes is membership, startsWith / endsWith look  *)
(* at the first / last token, toLowerCase maps each token to its lower case.  *)
Lower(token) ==
    CASE token = "Parody" -> "parody"
      [] token = "Satire" -> "satire"
      [] token = "HTTPS://A.COM/X" -> "https://a.com/x"
      [] token = "A.COM/X" -> "a.com/x"
      [] OTHER -> token
toLowerCase(s) == [i \in 1 .. Len(s) |-> Lower(s[i])]
startsWith(s, token) == Len(s) > 0 /\ s[1] = token
endsWith(s, token) == Len(s) > 0 /\ s[Len(s)] = token
substring(s, n) == SubSeq(s, 1, Min(n, Len(s)))

\* crypto.createHash('sha256').update(x).digest('hex'): one digest per input.
Sha256(x) == <<"sha256">> \o x

RECURSIVE SeqsUpTo(_, _)
SeqsUpTo(alphabet, n) ==
    IF n = 0 THEN {<< >>}
    ELSE LET shorter == SeqsUpTo(alphabet, n - 1)
         IN shorter \cup {Append(s, a) : s \in {t \in shorter : Len(t) = n - 1},
                                         a \in alphabet}

\* ---- URLs: generateUrlHash / normalizeUrl
\* A URL as the caller wrote it: well-formed or not (no scheme), with or without
\* upper-case letters, with or without a slash ending the path, and its query
\* parameters by name.
ParamNames == {"q", "utm_source", "fbclid", "gclid", "utm_id"}
Urls == [valid : BOOLEAN, upper : BOOLEAN, slash : BOOLEAN,
         params : SeqsUpTo(ParamNames, MaxParams)]

Query(params) == IF params = << >> THEN << >> ELSE <<"?">> \o params

UrlString(u) ==
    <<IF u.valid THEN (IF u.upper THEN "HTTPS://A.COM/X" ELSE "https://a.com/x")
      ELSE (IF u.upper THEN "A.COM/X" ELSE "a.com/x")>>
    \o (IF u.slash THEN <<"/">> ELSE << >>) \o Query(u.params)

trackingParams == {"utm_source", "utm_medium", "utm_campaign", "utm_term",
                   "utm_content", "fbclid", "gclid"}

\* normalizeUrl(url): new URL(url) throws for a malformed URL, which is then
\* only lower-cased; else the tracking parameters are deleted, the URL is
\* serialised, one final "/" of the whole string is cut and it is lower-cased.
normalizeUrl(u) ==
    IF u.valid
    THEN LET kept == SelectSeq(u.params, LAMBDA p : p \notin trackingParams)
             normalized == UrlString([u EXCEPT !.params = kept])
         IN toLowerCase(IF endsWith(normalized, "/")
                        THEN SubSeq(normalized, 1, Len(normalized) - 1)
                        ELSE normalized)
    ELSE toLowerCase(UrlString(u))

generateUrlHash(u) == Sha256(normalizeUrl(u))

\* ---- raw text: parseText / detectContentTypeFromText
Whitespace == {" ", "\n"}
TextTokens == Whitespace \cup {"word", "satire", "Parody", "opinion:", "i believe",
                               "breaking:", "breaking news"}
Texts == SeqsUpTo(TextTokens, MaxTokens)

\* text.replace(/\s+/g, ' '): every run of whitespace becomes one blank.
RECURSIVE CollapseWhitespace(_)
CollapseWhitespace(s) ==
    IF s = << >> THEN << >>
    ELSE IF Head(s) \in Whitespace
    THEN IF Len(s) > 1 /\ s[2] \in Whitespace
         THEN CollapseWhitespace(Tail(s))
         ELSE <<" ">> \o CollapseWhitespace(Tail(s))
    ELSE <<Head(s)>> \o CollapseWhitespace(Tail(s))

\* .replace(/\n\s*\n/g, '\n'): blank lines become one line break.
RECURSIVE CollapseBlankLines(_)
CollapseBlankLines(s) ==
    IF s = << >> THEN << >>
    ELSE IF Head(s) = "\n" /\ Len(s) > 1 /\ s[2] = "\n"
    THEN CollapseBlankLines(Tail(s))
    ELSE <<Head(s)>> \o CollapseBlankLines(Tail(s))

\* .trim()
RECURSIVE Trim(_)
Trim(s) ==
    IF s = << >> THEN << >>
    ELSE IF Head(s) \in Whitespace THEN Trim(Tail(s))
    ELSE IF s[Len(s)] \in Whitespace THEN Trim(SubSeq(s, 1, Len(s) - 1))
    ELSE s

\* The text classifier with the opinion test ahead of the satire test.
detectOpinionFirst(text) ==
    LET lowerText == toLowerCase(text)
    IN IF startsWith(lowerText, "opinion:") \/ Includes(lowerText, "in my opinion")
          \/ Includes(lowerText, "i believe")
       THEN "OPINION"
       ELSE IF Includes(lowerText, "satire") \/ Includes(lowerText, "parody")
       THEN "SATIRE"
       ELSE IF startsWith(lowerText, "breaking:") \/ Includes(lowerText, "breaking news")
       THEN "BREAKING"
       ELSE "NEWS"

detectContentTypeFromText(text) ==
    LET lowerText == toLowerCase(text)
    IN IF Includes(lowerText, "satire") \/ Includes(lowerText, "parody")
       THEN "SATIRE"
       ELSE IF startsWith(lowerText, "opinion:") \/ Includes(lowerText, "in my opinion")
               \/ Includes(lowerText, "i believe")
       THEN "OPINION"
       ELSE IF startsWith(lowerText, "breaking:") \/ Includes(lowerText, "breaking news")
       THEN "BREAKING"
       ELSE "NEWS"

\* parseText(text): the hash is taken of the text as given, then the text is
\* cleaned and classified.
parseText(text) ==
    LET hash == Sha256(text)
        cleanedText == Trim(CollapseBlankLines(CollapseWhitespace(text)))
    IN [success |-> TRUE, urlHash |-> hash, content |-> cleanedText,
        contentType |-> detectContentTypeFromText(cleanedText)]

\* ---- pages: detectContentType($, content, url)
\* The content by blocks of 100 characters, each holding at most one phrase;
\* the windows of the opinion and breaking tests in such blocks.
OpinionWindow == 5     \* substring(0, 500)
BreakingWindow == 2    \* substring(0, 200)
PageBlocks == {"word", "Satire", "opinion", "breaking:"}
Pages == SeqsUpTo(PageBlocks, MaxBlocks)
PageUrls == {<<"https://news.com/a">>, <<"https://", "theonion", ".com/a">>,
             <<"https://news.com/", "opinion", "/a">>}

satireIndicators == {"satire", "parody", "theonion", "babylonbee", "borowitz"}
opinionIndicators == {"opinion", "editorial", "op-ed", "commentary", "perspective",
                      "analysis:"}
breakingIndicators == {"breaking:", "breaking news", "developing:", "just in:"}

detectContentType(content, url) ==
    LET lowerContent == toLowerCase(content)
        lowerUrl == toLowerCase(url)
    IN IF \E ind \in satireIndicators :
             Includes(lowerUrl, ind) \/ Includes(lowerContent, ind)
       THEN "SATIRE"
       ELSE IF \E ind \in opinionIndicators :
                  Includes(lowerUrl, ind)
                  \/ Includes(substring(lowerContent, OpinionWindow), ind)
       THEN "OPINION"
       ELSE IF \E ind \in breakingIndicators :
                  Includes(toLowerCase(substring(lowerContent, BreakingWindow)), ind)
       THEN "BREAKING"
       ELSE "NEWS"

\* What the HTTP fetch inside parseUrl can do.
FetchOutcomes == {[ok |-> TRUE, message |-> << >>],
                  [ok |-> FALSE, message |-> <<"Request failed with status code 404">>]}

\* parseUrl(url): never throws; success:false carries the underlying message.
parseUrl(input, fetched) ==
    IF fetched.ok
    THEN [success |-> TRUE, error |-> << >>, urlHash |-> input.fp,
          contentType |-> input.contentType]
    ELSE [success |-> FALSE, error |-> fetched.message, urlHash |-> input.fp,
          contentType |-> Null]

\* The parser's message rethrown without the 'Failed to parse URL' prefix.
ParseErrorBare(parsed) == parsed.error

\* analyzeUrl line 49: new Error(`Failed to parse URL: ${parsed.error}`)
ParseError(parsed) == <<"Failed to parse", "URL:">> \o parsed.error

\* Replies of the chat-completion API to extractClaims: a claim count, or an error.
ExtractReplies == {[ok |-> TRUE, n |-> n] : n \in 0 .. MaxClaims}
                     \cup {[ok |-> FALSE, n |-> 0]}

\* extractClaims(content, title): the number of claims; [] on any error.
extractClaims(reply) == IF reply.ok THEN reply.n ELSE 0

\* Responses of the Python engine's /predict endpoint.
MLPredictions == {[label |-> "REAL", real_probability |-> 6150]}
EngineResponses == {[kind |-> "ok", body |-> Some(p)] : p \in MLPredictions}
                      \cup {[kind |-> k, body |-> None] : k \in {"http_error", "abort"}}

\* predictFakeNews(text): the parsed body, or null on !response.ok, timeout or
\* network error; it never rejects.
predictFakeNews(response) ==
    IF response.kind = "ok"
    THEN [threw |-> FALSE, value |-> response.body]
    ELSE [threw |-> FALSE, value |-> None]

\* A secondary classifier whose failure is not degraded to "no signal".
predictNoDegrade(response) ==
    IF response.kind = "ok"
    THEN [threw |-> FALSE, value |-> response.body]
    ELSE [threw |-> TRUE, value |-> None]

\* performAnalysis lines 132-135: mlService.predictFakeNews(content).catch(() => null)
predictOrNull(response) ==
    LET r == predictFakeNews(response)
    IN IF r.threw THEN [threw |-> FALSE, value |-> None] ELSE r

\* Replies to verifyClaims for n > 0 claims: one verification per claim in
\* order, an empty list, or an API error.
VerifyReplies == {"verified", "empty", "error"}

\* verifyClaims, catch block: claims.map((_, i) => ({claimIndex: i,
\* status: 'UNVERIFIABLE', confidence: 0, ...}))
verifyClaimsFallback(n) ==
    [i \in 1 .. n |-> [claimIndex |-> i - 1, status |-> "UNVERIFIABLE", confidence |-> 0]]

\* verifyClaims lines 141-198 over what the model API answers: nothing is asked
\* for an empty claim list, result.verifications || [] when the call succeeds,
\* the fallback list when it throws.
verifyClaimsFrom(n, response) ==
    IF n = 0 THEN << >>
    ELSE IF response.ok THEN response.verifications
    ELSE verifyClaimsFallback(n)

\* verifyClaims(claims, context): a list of [claimIndex, status]; on an error one
\* UNVERIFIABLE verification per claim.
verifyClaims(n, reply) ==
    verifyClaimsFrom(n,
        CASE reply = "verified" ->
               [ok |-> TRUE,
                verifications |-> [i \in 1 .. n |-> [claimIndex |-> i - 1,
                                                      status |-> "VERIFIED",
                                                      confidence |-> 90]]]
          [] reply = "empty" -> [ok |-> TRUE, verifications |-> << >>]
          [] OTHER -> [ok |-> FALSE, verifications |-> << >>])

\* The verification of claim i taken by position in the list, not by claimIndex.
FindVerificationByPosition(verifications, i) ==
    IF i + 1 <= Len(verifications) THEN verifications[i + 1]
    ELSE [claimIndex |-> i, status |-> Null, confidence |-> 0]

\* verifications.find(v => v.claimIndex === i) || {}, the empty object read
\* with the defaults of lines 225-227 (status undefined, confidence || 0).
FindVerification(verifications, i) ==
    LET hits == {k \in 1 .. Len(verifications) : verifications[k].claimIndex = i}
    IN IF hits = {} THEN [claimIndex |-> i, status |-> Null, confidence |-> 0]
       ELSE verifications[CHOOSE k \in hits : \A j \in hits : k <= j]

\* storeClaims lines 221-230: the data of the row for extracted claim i (the
\* claim's text stands for its place in the extraction).
claimData(articleId, i, verifications) ==
    LET verification == FindVerification(verifications, i)
    IN [articleId |-> articleId, claimText |-> i,
        isVerified |-> verification.status = "VERIFIED",
        verificationStatus |-> IF verification.status = Null
                               THEN "PENDING" ELSE verification.status,
        confidence |-> verification.confidence]

\* verifications.filter(v => v.status === 'VERIFIED').length
VerifiedCount(verifications) ==
    Cardinality({k \in 1 .. Len(verifications) : verifications[k].status = "VERIFIED"})

\* Replies to analyzeCredibility: a parsed JSON object, or an error it rethrows.
LLMScores == {95, 150}
CredibilityReplies ==
    {[ok |-> TRUE, score |-> s, confidence |-> 80, message |-> << >>] : s \in LLMScores}
      \cup {[ok |-> FALSE, score |-> 0, confidence |-> 0,
             message |-> <<"OpenAI", "429 quota exceeded">>]}

\* An assessment that swallows its error and answers a default, as extractClaims does.
analyzeCredibilityDefault(reply) ==
    [threw |-> FALSE, message |-> << >>,
     score |-> IF reply.ok THEN reply.score ELSE 50,
     confidence |-> IF reply.ok THEN reply.confidence ELSE 0]

\* analyzeCredibility(...): the parsed reply, or the error rethrown.
analyzeCredibility(reply) ==
    [threw |-> ~reply.ok, message |-> reply.message,
     score |-> reply.score, confidence |-> reply.confidence]

DbError == <<"Can't reach database server">>

\* ----------------------------------------------------------------- the cache
\* CacheService.get(key): the stored value, or null when the store raises.
CacheGet(store, key, ok) == IF ok THEN store[key] ELSE None

\* CacheService.set(key, value, ttl): true and the value stored, or false.
CacheSet(store, key, value, ok) ==
    IF ok THEN [store EXCEPT ![key] = Some(value)] ELSE store

\* ------------------------------------------------------------------- state
VARIABLES
    auditFaults,  \* the AnalysisRequest table may reject a write
    cache,        \* analysis:<fingerprint> -> option of a formatted result
    articles,     \* Article rows by urlHash: option of [id, contentType]
    results,      \* AnalysisResult rows in creation order
    claims,       \* Claim rows in creation order
    audit,        \* AnalysisRequest rows in creation order
    call,         \* the analyzeUrl / analyzeText invocations
    lastFresh,    \* history: resultId of the fresh result the last finished
                  \* call of a fingerprint returned, else 0
    unit,         \* the scoring engine applied to one drawn input
    probe,        \* the content parser applied to one drawn input
    queue         \* the analysis queue: its job, and the worker processing it

vars == <<auditFaults, cache, articles, results, claims, audit, call,
          lastFresh, unit, probe, queue>>

NoResult == [id |-> 0, articleId |-> Null, score |-> 0, confidence |-> 0,
             factualClaims |-> 0, verifiedClaims |-> 0, by |-> 0]

IdleCall ==
    [pc |-> "idle", kind |-> Null, fp |-> Null, contentType |-> Null,
     cached |-> None,            \* value of cacheService.getAnalysis
     extracted |-> 0,            \* extractedClaims.length
     claimsSettled |-> FALSE, mlSettled |-> FALSE,
     mlPrediction |-> None,
     verifications |-> << >>,
     stored |-> << >>,           \* storeClaims: ids of the rows created so far
     llmScore |-> 0,             \* credibilityResult.score
     data |-> NoResult,          \* the row handed to analysisResult.create
     analysisResult |-> NoResult,
     result |-> None,            \* formatAnalysisResult(...)
     returned |-> None,          \* the value the call resolved with
     error |-> << >>,            \* message of the error caught / thrown
     \* history, read by the properties only
     outcome |-> Null,           \* what the call had decided before its audit write
     firstError |-> << >>,       \* message of the first error the call caught
     faults |-> {},              \* which collaborators failed the call
     logged |-> 0,               \* logRequest invocations
     auditFailed |-> FALSE,      \* an audit write of the call was rejected
     cacheSets |-> 0,            \* setAnalysis invocations
     follows |-> 0,              \* lastFresh of the fingerprint when the call began
     overlapped |-> FALSE,       \* another call of the fingerprint ran meanwhile
     steps |-> << >>,            \* the operations the call invoked, in order
     seen |-> 0,                 \* AnalysisResult rows existing at findUnique
     cacheStored |-> FALSE]      \* the call's setAnalysis was accepted by the store

NoUnit == [phase |-> "none", llmScore |-> 0, confidence |-> 0, contentType |-> Null,
           mlPrediction |-> None, adjusted |-> 0, adjConfidence |-> 0,
           warning |-> Null, finalScore |-> 0, result |-> None]

NoProbe == [kind |-> "none", input |-> << >>, out |-> None]

NoQueue ==
    [ctl |-> "idle",             \* position of asyncAnalyzeUrl
     state |-> "none",           \* the queue's state of the job
     data |-> [kind |-> Null, requestId |-> 0],    \* job.data
     attemptsMade |-> 0,         \* failed attempts counted by the queue
     pc |-> "idle",              \* position of the processor
     result |-> 0,               \* result.resultId of the attempt
     error |-> << >>,            \* message of the error the attempt caught
     response |-> None,          \* what asyncAnalyzeUrl answered
     \* history, read by the properties only
     executions |-> 0,           \* invocations of the processor
     errors |-> << >>]           \* the message each failed attempt threw

InFlight(c) == call[c].pc \notin {"idle", "done", "failed"}
Finished(c) == call[c].pc \in {"done", "failed"}

PipelineInit ==
    /\ cache = [f \in Fingerprints |-> None]
    /\ articles = [f \in Fingerprints |-> None]
    /\ results = << >>
    /\ claims = << >>
    /\ audit = << >>
    /\ call = [c \in Calls |-> IdleCall]
    /\ lastFresh = [f \in Fingerprints |-> 0]
    /\ queue = NoQueue

Init == PipelineInit /\ auditFaults = FALSE /\ unit = NoUnit /\ probe = NoProbe

InitAuditFault == PipelineInit /\ auditFaults = TRUE /\ unit = NoUnit /\ probe = NoProbe

\* Whether the cache store answers: the external store (redis) may raise on any
\* call; the in-process fallback map always answers.
CacheOutcomes == BOOLEAN
AuditOutcomes == IF auditFaults THEN BOOLEAN ELSE {TRUE}

\* logRequest without its try/catch: a rejected write is rethrown.
logRequestRethrows(ok) == ~ok

\* logRequest that writes no row for a cache hit.
logRequestRowsSkipCached(rows, row, ok) ==
    IF ok /\ row.status # "CACHED" THEN Append(rows, row) ELSE rows

\* logRequest(...): try { create } catch { log }: writes the row if the table
\* accepts it, and never throws.
logRequestThrows(ok) == FALSE
logRequestRows(rows, row, ok) == IF ok THEN Append(rows, row) ELSE rows

AuditError == <<"audit write rejected">>

AuditRow(c, status, resultId, message) ==
    [by |-> c, requestType |-> call[c].kind, inputHash |-> call[c].fp,
     status |-> status, resultId |-> resultId, errorMessage |-> message]

\* {...value, cached: flag}
Returned(value, flag) == [cached |-> flag] @@ value

\* The call settles: history of its fingerprint.
Settle(c, freshId) ==
    lastFresh' = [lastFresh EXCEPT ![call[c].fp] = freshId]

\* ----------------------------------------------------------------- actions
Shared == <<auditFaults, unit, probe, queue>>

\* The catch block of analyzeUrl / analyzeText is entered with `message`.
Caught(c, message) ==
    [call[c] EXCEPT !.pc = "logFailed", !.error = message,
                    !.steps = Append(@, "logRequest"),
                    !.outcome = IF @ = Null THEN "failed" ELSE @,
                    !.firstError = IF @ = << >> THEN message ELSE @]

Fault(r, failed, name) == IF failed THEN [r EXCEPT !.faults = @ \cup {name}] ELSE r

\* analyzeUrl lines 14-20 / analyzeText lines 71-77: the fingerprint is computed
\* (parseText runs synchronously) and cacheService.getAnalysis is awaited.
Start(c, input) ==
    /\ call[c].pc = "idle"
    /\ IF c = 1 THEN TRUE ELSE call[c - 1].pc # "idle"
    /\ LET others == {d \in Calls \ {c} : InFlight(d) /\ call[d].fp = input.fp}
       IN call' = [d \in Calls |->
                    IF d = c
                    THEN [call[c] EXCEPT
                            !.pc = "getCache", !.kind = input.kind, !.fp = input.fp,
                            !.contentType = IF input.kind = "TEXT"
                                            THEN input.contentType ELSE Null,
                            !.steps = <<"getAnalysis">>,
                            !.follows = IF others = {} THEN lastFresh[input.fp] ELSE 0,
                            !.overlapped = others # {}]
                    ELSE IF d \in others
                    THEN [call[d] EXCEPT !.overlapped = TRUE]
                    ELSE call[d]]
    /\ UNCHANGED <<Shared, cache, articles, results, claims, audit, lastFresh>>

\* getAnalysis resolves (lines 20-21 / 77-78).
GetCache(c) ==
    /\ call[c].pc = "getCache"
    /\ \E ok \in CacheOutcomes :
         LET value == CacheGet(cache, call[c].fp, ok)
         IN call' = [call EXCEPT ![c] =
                IF IsSome(value)
                THEN [@ EXCEPT !.pc = "logCached", !.cached = value, !.outcome = "cached",
                               !.steps = Append(@, "logRequest")]
                ELSE [@ EXCEPT !.pc = IF call[c].kind = "URL" THEN "findArticle"
                                      ELSE "upsertArticle",
                               !.steps = Append(@, IF call[c].kind = "URL"
                                                   THEN "article.findUnique"
                                                   ELSE "article.upsert")]]
    /\ UNCHANGED <<Shared, cache, articles, results, claims, audit, lastFresh>>

\* logRequest('CACHED', value.resultId) resolves and the call returns
\* {...value, cached: true}: lines 23-24 and 79-80 (value = cached) and
\* lines 42-43 (value = result).
ReturnCached(c, value, ok) ==
    /\ audit' = logRequestRows(audit, AuditRow(c, "CACHED", value.resultId, << >>), ok)
    /\ IF logRequestThrows(ok)
       THEN /\ call' = [call EXCEPT ![c] =
                           [Caught(c, AuditError) EXCEPT !.logged = @ + 1,
                                                         !.auditFailed = TRUE]]
            /\ UNCHANGED lastFresh
       ELSE /\ call' = [call EXCEPT ![c] =
                           [@ EXCEPT !.pc = "done",
                                     !.returned = Some(Returned(value, TRUE)),
                                     !.logged = @ + 1,
                                     !.auditFailed = @ \/ ~ok]]
            /\ Settle(c, 0)

LogCached(c) ==
    /\ call[c].pc = "logCached"
    /\ \E ok \in AuditOutcomes : ReturnCached(c, Get(call[c].cached), ok)
    /\ UNCHANGED <<Shared, cache, articles, results, claims>>

\* prisma.article.findUnique resolves (lines 28-40): the Article of the
\* fingerprint with its latest AnalysisResult; on a hit the result is formatted
\* (no claims or details are passed) and setAnalysis is awaited.
\* The lookup ordered oldest first (orderBy createdAt asc).
OldestResult(articleId) ==
    LET own == {k \in 1 .. Len(results) : results[k].articleId = articleId}
    IN IF own = {} THEN None
       ELSE Some(results[CHOOSE k \in own : \A j \in own : k <= j])

LatestResult(articleId) ==
    LET own == {k \in 1 .. Len(results) : results[k].articleId = articleId}
    IN IF own = {} THEN None
       ELSE Some(results[CHOOSE k \in own : \A j \in own : j <= k])

FindArticle(c) ==
    /\ call[c].pc = "findArticle"
    /\ LET existingArticle == articles[call[c].fp]
           latest == IF IsSome(existingArticle)
                     THEN LatestResult(Get(existingArticle).id) ELSE None
       IN call' = [call EXCEPT ![c] =
              IF IsSome(latest)
              THEN [@ EXCEPT !.pc = "setCacheHit", !.outcome = "cached",
                             !.seen = Len(results),
                             !.steps = Append(@, "setAnalysis"),
                             !.result = Some(formatAnalysisResult(
                                  Get(existingArticle), Get(latest), << >>, None))]
              ELSE [@ EXCEPT !.pc = "parse", !.seen = Len(results),
                             !.steps = Append(@, "parseUrl")]]
    /\ UNCHANGED <<Shared, cache, articles, results, claims, audit, lastFresh>>

\* setAnalysis resolves on the persisted-result path (line 41).
SetCacheHit(c) ==
    /\ call[c].pc = "setCacheHit"
    /\ \E ok \in CacheOutcomes :
         cache' = CacheSet(cache, call[c].fp, Get(call[c].result), ok)
    /\ call' = [call EXCEPT ![c].pc = "logHit", ![c].cacheSets = @ + 1,
                            ![c].cacheStored = cache'[call[c].fp] = call[c].result,
                            ![c].steps = Append(@, "logRequest")]
    /\ UNCHANGED <<Shared, articles, results, claims, audit, lastFresh>>

LogHit(c) ==
    /\ call[c].pc = "logHit"
    /\ \E ok \in AuditOutcomes : ReturnCached(c, Get(call[c].result), ok)
    /\ UNCHANGED <<Shared, cache, articles, results, claims>>

\* parseUrl resolves (lines 47-53); on success performAnalysis starts and
\* awaits prisma.article.upsert.
Parse(c) ==
    /\ call[c].pc = "parse"
    /\ \E fetched \in FetchOutcomes, input \in Inputs :
         /\ input.fp = call[c].fp
         /\ LET parsed == parseUrl(input, fetched)
            IN call' = [call EXCEPT ![c] = Fault(
                   IF parsed.success
                   THEN [@ EXCEPT !.pc = "upsertArticle",
                                  !.steps = Append(@, "article.upsert"),
                                  !.contentType = parsed.contentType]
                   ELSE Caught(c, ParseError(parsed)),
                   ~fetched.ok, "fetch")]
    /\ UNCHANGED <<Shared, cache, articles, results, claims, audit, lastFresh>>

\* prisma.article.create in place of the upsert: a second row for the urlHash is
\* refused by the unique index.
CreateArticle(c) ==
    /\ call[c].pc = "upsertArticle"
    /\ IF ~IsSome(articles[call[c].fp])
       THEN /\ articles' = [articles EXCEPT ![call[c].fp] =
                  Some([id |-> call[c].fp, contentType |-> call[c].contentType,
                        by |-> c])]
            /\ call' = [call EXCEPT ![c].pc = "parallel",
                                    ![c].steps = @ \o <<"extractClaims", "predictFakeNews">>]
       ELSE /\ call' = [call EXCEPT ![c] = Caught(c, <<"Unique constraint failed">>)]
            /\ UNCHANGED articles
    /\ UNCHANGED <<Shared, cache, results, claims, audit, lastFresh>>

\* prisma.article.upsert resolves (lines 106-136); extractClaims and
\* predictFakeNews are then started together.
UpsertArticle(c) ==
    /\ call[c].pc = "upsertArticle"
    /\ \E ok \in BOOLEAN :
         IF ok
         THEN /\ articles' = [articles EXCEPT ![call[c].fp] =
                    Some([id |-> call[c].fp, contentType |-> call[c].contentType,
                          by |-> c])]
              /\ call' = [call EXCEPT ![c].pc = "parallel",
                                      ![c].steps = @ \o <<"extractClaims", "predictFakeNews">>]
         ELSE /\ call' = [call EXCEPT ![c] = Fault(Caught(c, DbError), TRUE, "article")]
              /\ UNCHANGED articles
    /\ UNCHANGED <<Shared, cache, results, claims, audit, lastFresh>>

\* Promise.all replaced by Promise.race: the call goes on once either settled.
JoinedOnFirst(r) ==
    IF r.claimsSettled \/ r.mlSettled
    THEN [r EXCEPT !.pc = "retrieve", !.steps = Append(@, "retrieveForClaims")]
    ELSE r

\* Promise.all (lines 130-136): once both have settled the call goes on to
\* ragService.retrieveForClaims (line 145).
Joined(r) ==
    IF r.claimsSettled /\ r.mlSettled
    THEN [r EXCEPT !.pc = "retrieve", !.steps = Append(@, "retrieveForClaims")]
    ELSE r

ExtractSettles(c) ==
    /\ call[c].pc = "parallel"
    /\ ~call[c].claimsSettled
    /\ \E reply \in ExtractReplies :
         call' = [call EXCEPT ![c] =
                    Joined([@ EXCEPT !.claimsSettled = TRUE,
                                     !.extracted = extractClaims(reply)])]
    /\ UNCHANGED <<Shared, cache, articles, results, claims, audit, lastFresh>>

PredictSettles(c) ==
    /\ call[c].pc = "parallel"
    /\ ~call[c].mlSettled
    /\ \E response \in EngineResponses :
         LET r == predictOrNull(response)
         IN call' = [call EXCEPT ![c] = Fault(
                IF r.threw
                THEN Caught(c, <<"ML engine unavailable">>)
                ELSE Joined([@ EXCEPT !.mlSettled = TRUE, !.mlPrediction = r.value]),
                response.kind # "ok", "ml")]
    /\ UNCHANGED <<Shared, cache, articles, results, claims, audit, lastFresh>>

\* retrieveForClaims resolves (never throws); verifyClaims is awaited (line 148).
Retrieve(c) ==
    /\ call[c].pc = "retrieve"
    /\ call' = [call EXCEPT ![c].pc = "verify", ![c].steps = Append(@, "verifyClaims")]
    /\ UNCHANGED <<Shared, cache, articles, results, claims, audit, lastFresh>>

\* verifyClaims resolves (never throws); storeClaims starts (line 151).  With no
\* claim storeClaims awaits nothing and analyzeCredibility is awaited (line 154).
Verify(c) ==
    /\ call[c].pc = "verify"
    /\ \E reply \in VerifyReplies :
         call' = [call EXCEPT ![c] =
                    [@ EXCEPT !.verifications = verifyClaims(call[c].extracted, reply),
                              !.steps = Append(@, IF call[c].extracted = 0
                                                  THEN "analyzeCredibility"
                                                  ELSE "claim.create"),
                              !.pc = IF call[c].extracted = 0 THEN "assess" ELSE "storeClaims"]]
    /\ UNCHANGED <<Shared, cache, articles, results, claims, audit, lastFresh>>

\* One prisma.claim.create of the storeClaims loop resolves (lines 216-234).
StoreClaim(c) ==
    /\ call[c].pc = "storeClaims"
    /\ \E ok \in BOOLEAN :
         IF ok
         THEN LET i == Len(call[c].stored)
                  row == [id |-> Len(claims) + 1, by |-> c]
                         @@ claimData(call[c].fp, i, call[c].verifications)
              IN /\ claims' = Append(claims, row)
                 /\ call' = [call EXCEPT ![c] =
                       [@ EXCEPT !.stored = Append(@, row.id),
                                 !.steps = Append(@, IF i + 1 = call[c].extracted
                                                     THEN "analyzeCredibility"
                                                     ELSE "claim.create"),
                                 !.pc = IF i + 1 = call[c].extracted THEN "assess"
                                        ELSE "storeClaims"]]
         ELSE /\ call' = [call EXCEPT ![c] = Fault(Caught(c, DbError), TRUE, "claim")]
              /\ UNCHANGED claims
    /\ UNCHANGED <<Shared, cache, articles, results, audit, lastFresh>>

\* analyzeCredibility resolves or rejects (lines 154-202): the score is
\* adjusted, blended and the AnalysisResult row is handed to prisma.
Assess(c) ==
    /\ call[c].pc = "assess"
    /\ \E reply \in CredibilityReplies :
         LET credibilityResult == analyzeCredibility(reply)
         IN
         IF ~credibilityResult.threw
         THEN LET adjustedScore == adjustScoreForContentType(
                                       credibilityResult.score,
                                       credibilityResult.confidence, call[c].contentType)
                  finalScore == BlendScore(adjustedScore.score, call[c].mlPrediction)
              IN call' = [call EXCEPT ![c] = Fault(
                    [@ EXCEPT !.pc = "createResult",
                              !.steps = @ \o <<"blend", "analysisResult.create">>,
                              !.llmScore = credibilityResult.score,
                              !.data = [id |-> 0, articleId |-> call[c].fp,
                                        score |-> finalScore,
                                        confidence |-> adjustedScore.confidence,
                                        factualClaims |-> call[c].extracted,
                                        verifiedClaims |-> VerifiedCount(call[c].verifications),
                                        by |-> c]],
                    ~reply.ok, "llm")]
         ELSE call' = [call EXCEPT ![c] =
                         Fault(Caught(c, credibilityResult.message), ~reply.ok, "llm")]
    /\ UNCHANGED <<Shared, cache, articles, results, claims, audit, lastFresh>>

\* prisma.analysisResult.create resolves or rejects (lines 184-205).
\* analysisResult.create with its rejection only logged: the call goes on with
\* the row it computed.
CreateResultBestEffort(c) ==
    /\ call[c].pc = "createResult"
    /\ \E ok \in BOOLEAN :
         LET row == [call[c].data EXCEPT !.id = Len(results) + 1]
         IN /\ results' = IF ok THEN Append(results, row) ELSE results
            /\ call' = [call EXCEPT ![c] = Fault(
                  [@ EXCEPT !.pc = "logCompleted",
                            !.steps = Append(@, "logRequest"),
                            !.analysisResult = row,
                            !.outcome = "fresh"], ~ok, "result")]
    /\ UNCHANGED <<Shared, cache, articles, claims, audit, lastFresh>>

CreateResult(c) ==
    /\ call[c].pc = "createResult"
    /\ \E ok \in BOOLEAN :
         IF ok
         THEN LET row == [call[c].data EXCEPT !.id = Len(results) + 1]
              IN /\ results' = Append(results, row)
                 /\ call' = [call EXCEPT ![c].pc = "logCompleted",
                                         ![c].steps = Append(@, "logRequest"),
                                         ![c].analysisResult = row,
                                         ![c].outcome = "fresh"]
         ELSE /\ call' = [call EXCEPT ![c] = Fault(Caught(c, DbError), TRUE, "result")]
              /\ UNCHANGED results
    /\ UNCHANGED <<Shared, cache, articles, claims, audit, lastFresh>>

\* logRequest('COMPLETED') resolves; performAnalysis returns the formatted
\* result and setAnalysis is awaited (lines 205-207, 53-56 / 84-87).
LogCompleted(c) ==
    /\ call[c].pc = "logCompleted"
    /\ \E ok \in AuditOutcomes :
         /\ audit' = logRequestRows(
                audit, AuditRow(c, "COMPLETED", call[c].analysisResult.id, << >>), ok)
         /\ call' = [call EXCEPT ![c] =
               IF logRequestThrows(ok)
               THEN [Caught(c, AuditError) EXCEPT !.logged = @ + 1, !.auditFailed = TRUE]
               ELSE [@ EXCEPT
                       !.pc = "setCache", !.logged = @ + 1, !.auditFailed = @ \/ ~ok,
                       !.steps = Append(@, "setAnalysis"),
                       !.result = Some(formatAnalysisResult(
                            [id |-> call[c].fp, contentType |-> call[c].contentType,
                             by |-> c],
                            call[c].analysisResult, call[c].stored, call[c].mlPrediction))]]
    /\ UNCHANGED <<Shared, cache, articles, results, claims, lastFresh>>

\* setAnalysis resolves (never throws) and the call returns
\* {...result, cached: false} (lines 56-59 / 87-90).
SetCache(c) ==
    /\ call[c].pc = "setCache"
    /\ \E ok \in CacheOutcomes :
         cache' = CacheSet(cache, call[c].fp, Get(call[c].result), ok)
    /\ call' = [call EXCEPT ![c].pc = "done", ![c].cacheSets = @ + 1,
                            ![c].cacheStored = cache'[call[c].fp] = call[c].result,
                            ![c].returned = Some(Returned(Get(call[c].result), FALSE))]
    /\ Settle(c, Get(call[c].result).resultId)
    /\ UNCHANGED <<Shared, articles, results, claims, audit>>

\* The catch block (lines 61-65 / 92-96): logRequest('FAILED', null, message)
\* resolves and the error is rethrown.
LogFailed(c) ==
    /\ call[c].pc = "logFailed"
    /\ \E ok \in AuditOutcomes :
         /\ audit' = logRequestRows(audit, AuditRow(c, "FAILED", 0, call[c].error), ok)
         /\ call' = [call EXCEPT ![c] =
               [@ EXCEPT !.pc = "failed", !.logged = @ + 1, !.auditFailed = @ \/ ~ok,
                         !.error = IF logRequestThrows(ok) THEN AuditError ELSE @]]
    /\ Settle(c, 0)
    /\ UNCHANGED <<Shared, cache, articles, results, claims>>

Next ==
    \E c \in Calls :
        \/ \E input \in Inputs : Start(c, input)
        \/ GetCache(c)
        \/ LogCached(c)
        \/ FindArticle(c)
        \/ SetCacheHit(c)
        \/ LogHit(c)
        \/ Parse(c)
        \/ UpsertArticle(c)
        \/ ExtractSettles(c)
        \/ PredictSettles(c)
        \/ Retrieve(c)
        \/ Verify(c)
        \/ StoreClaim(c)
        \/ Assess(c)
        \/ CreateResult(c)
        \/ LogCompleted(c)
        \/ SetCache(c)
        \/ LogFailed(c)

Spec == Init /\ [][Next]_vars

SpecAuditFault == InitAuditFault /\ [][Next]_vars

\* ------------------------------------------- the pipeline over earlier runs
\* The state earlier runs left behind once their cache entries expired (the
\* analysis TTL): per fingerprint up to MaxPrior AnalysisResult rows of its
\* Article (two when two simultaneous calls both analysed it), each with its
\* COMPLETED audit row, and an empty cache.
PriorResults(f, n, base) ==
    [k \in 1 .. n |->
        [id |-> base + k, articleId |-> f, score |-> 40 + 20 * k, confidence |-> 80,
         factualClaims |-> 0, verifiedClaims |-> 0, by |-> 0]]

PriorAudit(rows) ==
    [k \in 1 .. Len(rows) |->
        [by |-> 0, requestType |-> IF rows[k].articleId = "u1" THEN "URL" ELSE "TEXT",
         inputHash |-> rows[k].articleId, status |-> "COMPLETED",
         resultId |-> rows[k].id, errorMessage |-> << >>]]

InitPersisted ==
    \E n \in [Fingerprints -> 0 .. MaxPrior] :
        /\ results = PriorResults("u1", n["u1"], 0) \o PriorResults("t1", n["t1"], n["u1"])
        /\ audit = PriorAudit(results)
        /\ articles = [f \in Fingerprints |->
                          IF n[f] > 0
                          THEN Some([id |-> f,
                                     contentType |-> IF f = "u1" THEN "NEWS" ELSE "BREAKING",
                                     by |-> 0])
                          ELSE None]
        /\ cache = [f \in Fingerprints |-> None]
        /\ claims = << >>
        /\ call = [c \in Calls |-> IdleCall]
        /\ lastFresh = [f \in Fingerprints |-> 0]
        /\ auditFaults = FALSE
        /\ unit = NoUnit
        /\ probe = NoProbe
        /\ queue = NoQueue

SpecPersisted == InitPersisted /\ [][Next]_vars

\* ------------------------------------------------------------ the endpoints
\* errorHandler(err): 503 for an OpenAI error, else 500.
errorHandler(error) == IF Includes(error, "OpenAI") THEN 503 ELSE 500

\* POST /api/analyze/url: 200 with the result; 422 when the message includes
\* 'Failed to parse'; any other error goes to next(error).
analyzeUrlController(returned, error) ==
    IF IsSome(returned) THEN 200
    ELSE IF Includes(error, "Failed to parse") THEN 422
    ELSE errorHandler(error)

\* POST /api/analyze/text: 200 with the result; every error goes to next(error).
analyzeTextController(returned, error) ==
    IF IsSome(returned) THEN 200 ELSE errorHandler(error)

HttpStatus(c) ==
    IF call[c].kind = "URL"
    THEN analyzeUrlController(call[c].returned, call[c].error)
    ELSE analyzeTextController(call[c].returned, call[c].error)

\* include: {article: {include: {claims: true}}}: the ids of every Claim row of
\* the Article, in creation order.
ClaimsOfArticle(articleId) ==
    LET own == SelectSeq([k \in 1 .. Len(claims) |-> claims[k]],
                         LAMBDA row : row.articleId = articleId)
    IN [k \in 1 .. Len(own) |-> own[k].id]

\* GET /api/analyze/:resultId (getAnalysis) and the result part of
\* GET /api/analyze/status/:requestId: the AnalysisResult with its Article and
\* the Article's claims, formatted; nothing when the row does not exist.
getAnalysis(resultId) ==
    LET found == {k \in 1 .. Len(results) : results[k].id = resultId}
    IN IF found = {} THEN None
       ELSE LET result == results[CHOOSE k \in found : TRUE]
            IN Some(formatAnalysisResult(Get(articles[result.articleId]), result,
                                         ClaimsOfArticle(result.articleId), None))

\* ------------------------------------------------- the scoring engine alone
\* performAnalysis lines 161-178 and the classification of formatAnalysisResult
\* line 299, applied to one input drawn from:
UnitScores == (0 - UnitScoreSpan) .. (100 + UnitScoreSpan)
UnitConfidences == {0, 30, 50, 51, 100}
UnitProbabilities == {0, 49, 50, 150, 3333, 5000, 6000, 6149, 6150, 9950, 10000}
UnitPredictions ==
    {None} \cup {Some([label |-> IF p >= 5000 THEN "REAL" ELSE "FAKE",
                       real_probability |-> p]) : p \in UnitProbabilities}

InitScore ==
    /\ PipelineInit
    /\ auditFaults = FALSE
    /\ unit \in {[NoUnit EXCEPT !.phase = "input", !.llmScore = s, !.confidence = k,
                                !.contentType = t, !.mlPrediction = m] :
                   s \in UnitScores, k \in UnitConfidences, t \in ContentTypes,
                   m \in UnitPredictions}
    /\ probe = NoProbe

ScoreUnit ==
    /\ unit.phase = "input"
    /\ LET adjustedScore == adjustScoreForContentType(
                                unit.llmScore, unit.confidence, unit.contentType)
           finalScore == BlendScore(adjustedScore.score, unit.mlPrediction)
       IN unit' = [unit EXCEPT !.phase = "scored",
                               !.adjusted = adjustedScore.score,
                               !.adjConfidence = adjustedScore.confidence,
                               !.warning = adjustedScore.warning,
                               !.finalScore = finalScore,
                               !.result = Some(formatAnalysisResult(
                                   [id |-> "t1", contentType |-> unit.contentType],
                                   [NoResult EXCEPT !.id = 1, !.articleId = "t1",
                                       !.score = finalScore,
                                       !.confidence = adjustedScore.confidence],
                                   << >>, unit.mlPrediction))]
    /\ UNCHANGED <<auditFaults, cache, articles, results, claims, audit, call, lastFresh,
                   probe, queue>>

NextScore == ScoreUnit

SpecScore == InitScore /\ [][NextScore]_vars

\* ------------------------------------------------ the content parser alone
\* One input is drawn - a raw text, a page with its URL, or a URL - and the
\* parser's function for it is applied.
InitParser ==
    /\ PipelineInit
    /\ auditFaults = FALSE
    /\ unit = NoUnit
    /\ probe \in {[kind |-> "text", input |-> t, out |-> None] : t \in Texts}
             \cup {[kind |-> "page", input |-> [content |-> b, url |-> u], out |-> None] :
                      b \in Pages, u \in PageUrls}
             \cup {[kind |-> "url", input |-> u, out |-> None] : u \in Urls}

Unprobed == UNCHANGED <<auditFaults, cache, articles, results, claims, audit, call,
                        lastFresh, unit, queue>>

ParseText ==
    /\ probe.kind = "text" /\ ~IsSome(probe.out)
    /\ probe' = [probe EXCEPT !.out = Some(parseText(probe.input))]
    /\ Unprobed

DetectPage ==
    /\ probe.kind = "page" /\ ~IsSome(probe.out)
    /\ probe' = [probe EXCEPT
                   !.out = Some(detectContentType(probe.input.content, probe.input.url))]
    /\ Unprobed

HashUrl ==
    /\ probe.kind = "url" /\ ~IsSome(probe.out)
    /\ probe' = [probe EXCEPT !.out = Some(generateUrlHash(probe.input))]
    /\ Unprobed

NextParser == ParseText \/ DetectPage \/ HashUrl

SpecParser == InitParser /\ [][NextParser]_vars

\* ------------------------------------------------------- storeClaims alone
(* storeClaims(articleId, extractedClaims, verifications) over every list of  *)
(* verifications the verifier can hand back for n extracted claims: entries   *)
(* in any order, repeated, missing, without a status, or naming a claim index *)
(* that was never extracted.  Each prisma.claim.create is one step.           *)
VerificationStatuses == {"VERIFIED", "FALSE", Null}

Verifications ==
    [claimIndex : 0 .. MaxStored, status : VerificationStatuses, confidence : {70}]

VerifierResponses ==
    {[ok |-> FALSE, verifications |-> << >>]}
    \cup {[ok |-> TRUE, verifications |-> v] : v \in SeqsUpTo(Verifications, MaxVerifications)}

InitClaims ==
    /\ PipelineInit
    /\ auditFaults = FALSE
    /\ unit = NoUnit
    /\ probe \in {[kind |-> "claims", input |-> [n |-> n, response |-> r], out |-> None] :
                     n \in 0 .. MaxStored, r \in VerifierResponses}

Unstored == UNCHANGED <<auditFaults, cache, articles, results, audit, call, lastFresh, unit,
                        queue>>

\* performAnalysis line 148: await llmService.verifyClaims(...)
VerifyExtracted ==
    /\ probe.kind = "claims" /\ ~IsSome(probe.out)
    /\ probe' = [probe EXCEPT
                   !.out = Some([verifications |->
                                    verifyClaimsFrom(probe.input.n, probe.input.response),
                                 returned |-> FALSE])]
    /\ UNCHANGED claims
    /\ Unstored

\* storeClaims, one turn of the loop: await prisma.claim.create(...)
CreateClaim ==
    /\ probe.kind = "claims" /\ IsSome(probe.out) /\ ~Get(probe.out).returned
    /\ Len(claims) < probe.input.n
    /\ claims' = Append(claims, [id |-> Len(claims) + 1, by |-> 1]
                                 @@ claimData("t1", Len(claims),
                                              Get(probe.out).verifications))
    /\ UNCHANGED probe
    /\ Unstored

\* storeClaims, the loop condition fails: return storedClaims
ReturnStored ==
    /\ probe.kind = "claims" /\ IsSome(probe.out) /\ ~Get(probe.out).returned
    /\ ~(Len(claims) < probe.input.n)
    /\ probe' = [probe EXCEPT !.out = Some([Get(probe.out) EXCEPT !.returned = TRUE])]
    /\ UNCHANGED claims
    /\ Unstored

\* performAnalysis lines 180-202 after storeClaims: the counts of the
\* AnalysisResult row, factualClaims = extractedClaims.length and verifiedClaims
\* = the number of verifications with status VERIFIED; the row is created.
CreateCounted ==
    /\ probe.kind = "claims" /\ IsSome(probe.out) /\ Get(probe.out).returned
    /\ results = << >>
    /\ results' = <<[NoResult EXCEPT
                       !.id = 1, !.articleId = "t1", !.by = 1,
                       !.factualClaims = probe.input.n,
                       !.verifiedClaims = VerifiedCount(Get(probe.out).verifications)]>>
    /\ UNCHANGED <<auditFaults, cache, articles, claims, audit, call, lastFresh, unit,
                   probe, queue>>

NextClaims == VerifyExtracted \/ CreateClaim \/ ReturnStored \/ CreateCounted

SpecClaims == InitClaims /\ [][NextClaims]_vars

\* ------------------------------------------------------- the analysis queue
(* One job of the 'analysis' queue and the processor registered for it.  The  *)
(* queue library runs the processor for a waiting job; when the processor     *)
(* throws it counts the attempt and either schedules the job again after the  *)
(* backoff delay or, once `attempts` attempts were made, fails the job.  The  *)
(* analysis the processor awaits is taken by its outcome: the result it       *)
(* returns or the error it throws, and the audit row it wrote.  The PENDING   *)
(* row of asyncAnalyzeUrl lives in the AnalysisRequest table with those rows. *)
JobKinds == {"url", "text", "none"}

ResultIds == 1 .. 2

AnalysisErrors == {DbError, <<"Failed to parse", "URL:", "timeout">>}

AnalysisOutcomes ==
    {[ok |-> TRUE, resultId |-> r, cached |-> h, message |-> << >>] :
        r \in ResultIds, h \in BOOLEAN}
    \cup {[ok |-> FALSE, resultId |-> 0, cached |-> FALSE, message |-> m] :
             m \in AnalysisErrors}

\* The row written by the catch block with status FAILED but no message.
requestFailedSilently(row, message) ==
    [row EXCEPT !.status = "FAILED"]

\* data: {status: 'FAILED', errorMessage: error.message}
requestFailed(row, message) ==
    [row EXCEPT !.status = "FAILED", !.errorMessage = message]

\* data: {status: 'COMPLETED', resultId: result.resultId, completedAt}
requestCompleted(row, resultId) ==
    [row EXCEPT !.status = "COMPLETED", !.resultId = resultId]

\* prisma.analysisRequest.update({where: {id}, data}) when the table accepts it.
updateRequest(rows, id, row, ok) ==
    IF ok THEN [rows EXCEPT ![id] = row] ELSE rows

\* The queue, told that an attempt threw: retry after the backoff delay while
\* fewer than `attempts` attempts were made, else fail the job.
moveToFailed(attemptsMade) ==
    IF attemptsMade + 1 < attempts THEN "delayed" ELSE "failed"

InitQueue == PipelineInit /\ auditFaults = FALSE /\ unit = NoUnit /\ probe = NoProbe

Unqueued == UNCHANGED <<auditFaults, cache, articles, results, claims, call, lastFresh,
                        unit, probe>>

\* asyncAnalyzeUrl: prisma.analysisRequest.create({status: 'PENDING', ...}) resolves.
AsyncCreate ==
    /\ queue.ctl = "idle"
    /\ audit' = Append(audit, [by |-> 0, requestType |-> "URL", inputHash |-> "u1",
                                status |-> "PENDING", resultId |-> 0,
                                errorMessage |-> << >>])
    /\ queue' = [queue EXCEPT !.ctl = "created", !.data.requestId = Len(audit) + 1]
    /\ Unqueued

\* queueAnalysis lines 186-188: throws unless the queues were initialised; the
\* add itself rejects when the backend does not take the job.
BackendOutcomes == BOOLEAN
queueAnalysisThrows(available) == ~available

\* No fallback: the error of queueAnalysis goes to next(error).
asyncFallbackUnavailable(returned, error) ==
    [status |-> 500, data |-> <<"Queue not available">>]

\* asyncAnalyzeUrl lines 264-275: the fallback's answer, 200 with the result of
\* analyzeUrl, or next(error) with the error it threw.
asyncFallbackResponse(returned, error) ==
    IF IsSome(returned) THEN [status |-> 200, data |-> Get(returned)]
    ELSE [status |-> errorHandler(error), data |-> error]

\* asyncAnalyzeUrl: queueAnalysis({url, sessionId, requestId}) resolves and 202
\* is sent, or it throws and analyzeUrl is to be called in its place.
AsyncQueue ==
    /\ queue.ctl = "created"
    /\ \E available \in BackendOutcomes :
         queue' = IF queueAnalysisThrows(available)
                  THEN [queue EXCEPT !.ctl = "fallback"]
                  ELSE [queue EXCEPT
                          !.ctl = "queued", !.state = "waiting", !.data.kind = "url",
                          !.response = Some([status |-> 202,
                                             data |-> [requestId |-> queue.data.requestId,
                                                       status |-> "PENDING"]])]
    /\ UNCHANGED audit
    /\ Unqueued

\* Every step of an analyzeUrl / analyzeText call that has begun.
PipelineStep(c) ==
    \/ GetCache(c)
    \/ LogCached(c)
    \/ FindArticle(c)
    \/ SetCacheHit(c)
    \/ LogHit(c)
    \/ Parse(c)
    \/ UpsertArticle(c)
    \/ ExtractSettles(c)
    \/ PredictSettles(c)
    \/ Retrieve(c)
    \/ Verify(c)
    \/ StoreClaim(c)
    \/ Assess(c)
    \/ CreateResult(c)
    \/ LogCompleted(c)
    \/ SetCache(c)
    \/ LogFailed(c)

\* asyncAnalyzeUrl line 267: credibilityService.analyzeUrl(url, sessionId) begins.
FallbackStart ==
    /\ queue.ctl = "fallback"
    /\ Start(1, [kind |-> "URL", fp |-> "u1", contentType |-> "NEWS"])

\* The analyzeUrl call of the fallback takes a step.
FallbackStep ==
    /\ queue.ctl = "fallback"
    /\ PipelineStep(1)

\* asyncAnalyzeUrl lines 267-276: analyzeUrl has settled and the answer is sent.
FallbackRespond ==
    /\ queue.ctl = "fallback"
    /\ Finished(1)
    /\ queue' = [queue EXCEPT
                   !.ctl = "responded",
                   !.response = Some(asyncFallbackResponse(call[1].returned, call[1].error))]
    /\ UNCHANGED <<audit, auditFaults, cache, articles, results, claims, call, lastFresh,
                   unit, probe>>

\* queueAnalysis(data) by a producer that passes no requestId.
AddJob(kind) ==
    /\ queue.ctl = "idle"
    /\ queue' = [queue EXCEPT !.ctl = "queued", !.state = "waiting", !.data.kind = kind]
    /\ UNCHANGED audit
    /\ Unqueued

\* The queue hands the waiting job to the processor, which awaits analyzeUrl or
\* analyzeText, or throws 'No URL or text provided'.
ProcessStart ==
    /\ queue.state = "waiting" /\ queue.pc = "idle"
    /\ queue' = [queue EXCEPT
                   !.state = "active", !.executions = @ + 1,
                   !.pc = IF queue.data.kind = "none" THEN "catch" ELSE "analyze",
                   !.error = IF queue.data.kind = "none"
                             THEN <<"No URL or text provided">> ELSE << >>]
    /\ UNCHANGED audit
    /\ Unqueued

\* analyzeUrl / analyzeText settles, having written its own audit row.
ProcessAnalysed ==
    /\ queue.pc = "analyze"
    /\ \E out \in AnalysisOutcomes :
         /\ audit' = Append(audit,
                [by |-> queue.executions,
                 requestType |-> IF queue.data.kind = "url" THEN "URL" ELSE "TEXT",
                 inputHash |-> IF queue.data.kind = "url" THEN "u1" ELSE "t1",
                 status |-> IF ~out.ok THEN "FAILED"
                            ELSE IF out.cached THEN "CACHED" ELSE "COMPLETED",
                 resultId |-> out.resultId, errorMessage |-> out.message])
         /\ queue' =
               IF ~out.ok
               THEN [queue EXCEPT !.pc = "catch", !.error = out.message]
               ELSE IF queue.data.requestId # 0
               THEN [queue EXCEPT !.pc = "complete", !.result = out.resultId]
               ELSE [queue EXCEPT !.pc = "idle", !.result = out.resultId,
                                  !.state = "completed"]
    /\ Unqueued

\* The update to COMPLETED resolves and the processor returns, or it rejects
\* and the catch block is entered.
ProcessCompleted ==
    /\ queue.pc = "complete"
    /\ \E ok \in AuditOutcomes :
         /\ audit' = updateRequest(audit, queue.data.requestId,
                         requestCompleted(audit[queue.data.requestId], queue.result), ok)
         /\ queue' = IF ok
                      THEN [queue EXCEPT !.pc = "idle", !.state = "completed"]
                      ELSE [queue EXCEPT !.pc = "catch", !.error = DbError]
    /\ Unqueued

\* The catch block: the update to FAILED settles (a rejection is discarded),
\* the error is rethrown and the queue counts the attempt.
ProcessCaught ==
    /\ queue.pc = "catch"
    /\ \E ok \in AuditOutcomes :
         audit' = IF queue.data.requestId # 0
                  THEN updateRequest(audit, queue.data.requestId,
                           requestFailed(audit[queue.data.requestId], queue.error), ok)
                  ELSE audit
    /\ queue' = [queue EXCEPT !.pc = "idle",
                               !.attemptsMade = @ + 1,
                               !.errors = Append(@, queue.error),
                               !.state = moveToFailed(queue.attemptsMade)]
    /\ Unqueued

\* The backoff delay of a failed attempt elapses.
Backoff ==
    /\ queue.state = "delayed"
    /\ queue' = [queue EXCEPT !.state = "waiting"]
    /\ UNCHANGED audit
    /\ Unqueued

Worker == ProcessStart \/ ProcessAnalysed \/ ProcessCompleted \/ ProcessCaught \/ Backoff

NextQueue ==
    \/ AsyncCreate
    \/ AsyncQueue
    \/ \E kind \in JobKinds : AddJob(kind)
    \/ FallbackStart
    \/ FallbackStep
    \/ FallbackRespond
    \/ ProcessStart
    \/ ProcessAnalysed
    \/ ProcessCompleted
    \/ ProcessCaught
    \/ Backoff

SpecQueue == InitQueue /\ [][NextQueue]_vars

\* The worker is running: a job it can take, an attempt it can finish and an
\* elapsed delay do happen.
SpecQueueFair == SpecQueue /\ WF_vars(Worker)

\* The request handler runs on as well: queueAnalysis settles, and the analysis
\* of the synchronous fallback terminates and is answered.
Controller == AsyncQueue \/ FallbackStart \/ FallbackStep \/ FallbackRespond

SpecQueueLive == SpecQueueFair /\ WF_vars(Controller)

\* getAnalysisStatus (GET /api/analyze/status/:requestId): the row is read and its
\* status reported, with the resultId once COMPLETED and the message if FAILED.
getAnalysisStatus(requestId) ==
    LET request == audit[requestId]
    IN [requestId |-> requestId, status |-> request.status,
        result |-> IF request.status = "COMPLETED" /\ request.resultId # 0
                   THEN Some(request.resultId) ELSE None,
        error |-> IF request.status = "FAILED" THEN request.errorMessage ELSE << >>]

\* ---------------------------------------------------- the cache service alone
(* CacheService.get / set over one key space, in its two modes: with the      *)
(* external store (this.redis set by init), whose answers CacheGet / CacheSet *)
(* give and which drops entries on its own when their ttl is over, and with   *)
(* the in-process maps localCache / localCacheTTL.  Time is Date.now() in     *)
(* ticks; values are the objects the services store.                          *)
CacheKeys == {"k1", "k2"}
CacheValues == {"v1", "v2"}
CacheTtls == 1 .. MaxTtl

NoEntries == [k \in CacheKeys |-> None]

\* get on the in-process maps without the expiry test of lines 34-39.
localGetForever(localCache, localCacheTTL, key, now) ==
    [value |-> localCache[key], localCache |-> localCache, localCacheTTL |-> localCacheTTL]

\* get, lines 34-40: an entry whose expiry lies before now is deleted from both
\* maps and null is returned, else the stored value or null.
localGet(localCache, localCacheTTL, key, now) ==
    LET expiry == localCacheTTL[key]
    IN IF IsSome(expiry) /\ now > Get(expiry)
       THEN [value |-> None,
             localCache |-> [localCache EXCEPT ![key] = None],
             localCacheTTL |-> [localCacheTTL EXCEPT ![key] = None]]
       ELSE [value |-> localCache[key],
             localCache |-> localCache, localCacheTTL |-> localCacheTTL]

\* set, lines 58-59
localSet(localCache, localCacheTTL, key, value, ttlSeconds, now) ==
    [localCache |-> [localCache EXCEPT ![key] = Some(value)],
     localCacheTTL |-> [localCacheTTL EXCEPT ![key] = Some(now + ttlSeconds)]]

\* The try/catch of get and set: whatever the store raises is logged.
cacheThrows(ok) == FALSE

NoOp == [op |-> "none", key |-> Null, at |-> 0, value |-> None, returned |-> FALSE,
         threw |-> FALSE, ok |-> TRUE]

InitCache ==
    /\ PipelineInit
    /\ auditFaults = FALSE
    /\ unit = NoUnit
    /\ probe \in {[kind |-> "cache", input |-> [redis |-> r], out |-> None,
                     now |-> 0,
                     store |-> NoEntries,           \* the external store
                     localCache |-> NoEntries, localCacheTTL |-> NoEntries,
                     \* history, read by the properties only
                     written |-> NoEntries,         \* the last accepted set of each key
                     last |-> NoOp] :               \* the last get / set and its answer
                   r \in BOOLEAN}

\* Date.now() advances.
Tick ==
    /\ probe.kind = "cache" /\ probe.now < MaxClock
    /\ probe' = [probe EXCEPT !.now = @ + 1]
    /\ Unprobed

\* The external store drops an entry whose ttl is over.
StoreExpires(key) ==
    /\ probe.kind = "cache" /\ probe.input.redis
    /\ IsSome(probe.written[key])
    /\ probe.now > Get(probe.written[key]).at + Get(probe.written[key]).ttl
    /\ IsSome(probe.store[key])
    /\ probe' = [probe EXCEPT !.store[key] = None]
    /\ Unprobed

\* get(key), lines 27-46
CacheServiceGet(key) ==
    /\ probe.kind = "cache"
    /\ IF probe.input.redis
       THEN \E ok \in CacheOutcomes :
              probe' = [probe EXCEPT
                          !.last = [op |-> "get", key |-> key, at |-> probe.now,
                                    value |-> CacheGet(probe.store, key, ok),
                                    returned |-> FALSE, threw |-> cacheThrows(ok),
                                    ok |-> ok]]
       ELSE LET got == localGet(probe.localCache, probe.localCacheTTL, key, probe.now)
            IN probe' = [probe EXCEPT
                          !.localCache = got.localCache,
                          !.localCacheTTL = got.localCacheTTL,
                          !.last = [op |-> "get", key |-> key, at |-> probe.now,
                                    value |-> got.value, returned |-> FALSE,
                                    threw |-> FALSE, ok |-> TRUE]]
    /\ Unprobed

\* set(key, value, ttlSeconds), lines 51-66
CacheServiceSet(key, value, ttlSeconds) ==
    /\ probe.kind = "cache"
    /\ IF probe.input.redis
       THEN \E ok \in CacheOutcomes :
              probe' = [probe EXCEPT
                          !.store = CacheSet(probe.store, key, value, ok),
                          !.written[key] = IF ok
                                           THEN Some([value |-> value, at |-> probe.now,
                                                      ttl |-> ttlSeconds])
                                           ELSE @,
                          !.last = [op |-> "set", key |-> key, at |-> probe.now,
                                    value |-> Some(value), returned |-> ok,
                                    threw |-> cacheThrows(ok), ok |-> ok]]
       ELSE LET put == localSet(probe.localCache, probe.localCacheTTL, key, value,
                                ttlSeconds, probe.now)
            IN probe' = [probe EXCEPT
                          !.localCache = put.localCache,
                          !.localCacheTTL = put.localCacheTTL,
                          !.written[key] = Some([value |-> value, at |-> probe.now,
                                                 ttl |-> ttlSeconds]),
                          !.last = [op |-> "set", key |-> key, at |-> probe.now,
                                    value |-> Some(value), returned |-> TRUE,
                                    threw |-> FALSE, ok |-> TRUE]]
    /\ Unprobed

NextCache ==
    \/ Tick
    \/ \E key \in CacheKeys : StoreExpires(key)
    \/ \E key \in CacheKeys : CacheServiceGet(key)
    \/ \E key \in CacheKeys, value \in CacheValues, ttlSeconds \in CacheTtls :
          CacheServiceSet(key, value, ttlSeconds)

SpecCache == InitCache /\ [][NextCache]_vars

\* ================================================================== claims
AuditRowsBy(c) == {k \in 1 .. Len(audit) : audit[k].by = c}
ResultsBy(c) == {k \in 1 .. Len(results) : results[k].by = c}
ClaimsBy(c) == {k \in 1 .. Len(claims) : claims[k].by = c}
ArticlesBy(c) == {f \in Fingerprints : IsSome(articles[f]) /\ Get(articles[f]).by = c}

\* C1 as claimed: every call appends exactly one AnalysisRequest row, never
\* zero and never two, whatever its outcome.
C1_ExactlyOneAuditRow ==
    \A c \in Calls :
        /\ Cardinality(AuditRowsBy(c)) <= 1
        /\ Finished(c) => Cardinality(AuditRowsBy(c)) = 1

\* C1 amended: every call invokes logRequest exactly once and never appends two
\* rows; it appends exactly one row unless that audit write is rejected, and
\* then none (the rejection is swallowed).
C1_OneAuditWrite ==
    \A c \in Calls :
        /\ Cardinality(AuditRowsBy(c)) <= 1
        /\ call[c].logged <= 1
        /\ Finished(c) =>
              /\ call[c].logged = 1
              /\ Cardinality(AuditRowsBy(c)) = IF call[c].auditFailed THEN 0 ELSE 1

C1_Witness ==
    \E c, d \in Calls :
        /\ Finished(c) /\ ~call[c].auditFailed /\ Cardinality(AuditRowsBy(c)) = 1
        /\ Finished(d) /\ call[d].auditFailed /\ Cardinality(AuditRowsBy(d)) = 0

\* C2: a call that immediately follows a fresh analysis of the same input
\* (result r, no other call of that fingerprint in between or meanwhile)
\* creates no new AnalysisResult and returns cached:true with resultId r.
C2_CacheRoundTrip ==
    \A c \in Calls :
        (call[c].follows > 0 /\ ~call[c].overlapped) =>
            /\ call[c].analysisResult.id = 0
            /\ call[c].pc = "done" =>
                  /\ Get(call[c].returned).cached
                  /\ Get(call[c].returned).resultId = call[c].follows

\* C3: every persisted AnalysisResult has its score within [0,100], blended or
\* not, for any score analyzeCredibility returns.
C3_PersistedScoreInRange ==
    \A k \in 1 .. Len(results) : results[k].score \in 0 .. 100

\* Round-half-up of n/d for d > 0.
RoundHalfUp(n, d) == (2 * n + d) \div (2 * d)

\* C4 as claimed: with a secondary prediction the score is
\* clamp(round(llmScore*0.7 + realProbability*0.3), 0, 100), realProbability
\* being the prediction's real probability.
C4_BlendOfRealProbability ==
    (unit.phase = "scored" /\ IsSome(unit.mlPrediction)) =>
        LET p == Get(unit.mlPrediction).real_probability
        IN /\ unit.finalScore = Clamp(RoundHalfUp(700 * unit.llmScore + 3 * p, 1000))
           /\ Get(unit.result).score = unit.finalScore

\* C4 amended: with a secondary prediction the score is the clamp to [0,100] of
\* an integer nearest to llmScore*0.7 + m*0.3, where m is the real probability
\* rounded to the nearest integer first; when that sum lies exactly halfway the
\* double-precision evaluation decides the direction: (45, 0) gives 31 and
\* (15, 0) gives 11; (80, 60) gives 74.
C4_BlendOfRoundedProbability ==
    (unit.phase = "scored" /\ IsSome(unit.mlPrediction)) =>
        LET m == (Get(unit.mlPrediction).real_probability + 50) \div 100
            tenths == 7 * unit.llmScore + 3 * m
            up == (tenths + 5) \div 10
        IN /\ unit.finalScore \in
                 IF (tenths + 5) % 10 = 0 THEN {Clamp(up), Clamp(up - 1)} ELSE {Clamp(up)}
           /\ (unit.llmScore = 80 /\ m = 60) => unit.finalScore = 74
           /\ (unit.llmScore = 45 /\ m = 0) => unit.finalScore = 31
           /\ (unit.llmScore = 15 /\ m = 0) => unit.finalScore = 11
           /\ Get(unit.result).score = unit.finalScore

C4_Witness ==
    /\ unit.phase = "scored"
    /\ unit.llmScore = 80
    /\ unit.mlPrediction = Some([label |-> "REAL", real_probability |-> 6150])
    /\ unit.finalScore = 75

\* C5: when the secondary classifier is unavailable the prediction is null,
\* that alone never fails the call, no blending is applied (the persisted and
\* returned score is the llmScore) and the result carries mlPrediction: null.
C5_ClassifierUnavailableDegrades ==
    \A c \in Calls :
        "ml" \in call[c].faults =>
            /\ call[c].mlSettled /\ ~IsSome(call[c].mlPrediction)
            /\ call[c].faults = {"ml"} => call[c].pc \notin {"logFailed", "failed"}
            /\ call[c].data.by = c => call[c].data.score = call[c].llmScore
            /\ call[c].pc = "done" =>
                  LET r == Get(call[c].returned)
                  IN /\ ~r.cached
                     /\ r.score = call[c].llmScore
                     /\ results[r.resultId].score = call[c].llmScore
                     /\ r.mlPrediction = None

C5_Witness ==
    \E c \in Calls :
        /\ call[c].faults = {"ml"}
        /\ call[c].pc = "done"
        /\ Get(call[c].returned).mlPrediction = None

C7_PersistenceFailureStillReturns ==
    \A c \in Calls :
        (/\ Finished(c)
         /\ call[c].data.by = c
         /\ call[c].faults \cap {"article", "result"} # {}) =>
            /\ call[c].pc = "done"
            /\ IsSome(call[c].returned)
            /\ Get(call[c].returned).score = call[c].data.score

\* C8: when parseUrl answers success:false, analyzeUrl fails with the parse
\* failure, which the URL endpoint answers with 422 and nothing else with 422;
\* one audit row FAILED with the underlying message is written, and the call
\* creates or changes no Article, ClaimRecord, AnalysisResult or cache entry.
C8_ParseFailureDistinct ==
    \A c \in Calls :
        /\ "fetch" \in call[c].faults =>
              /\ call[c].kind = "URL"
              /\ call[c].pc \in {"logFailed", "failed"}
              /\ Includes(call[c].error, "Request failed with status code 404")
              /\ call[c].cacheSets = 0
              /\ ArticlesBy(c) = {} /\ ResultsBy(c) = {} /\ ClaimsBy(c) = {}
              /\ Finished(c) =>
                    /\ HttpStatus(c) = 422
                    /\ Cardinality(AuditRowsBy(c)) = 1
                    /\ \A k \in AuditRowsBy(c) :
                          /\ audit[k].status = "FAILED"
                          /\ audit[k].errorMessage = call[c].error
                          /\ audit[k].resultId = 0
        /\ (Finished(c) /\ call[c].kind = "URL" /\ HttpStatus(c) = 422) =>
              "fetch" \in call[c].faults

C8_Witness ==
    \E c, d \in Calls :
        /\ Finished(c) /\ "fetch" \in call[c].faults /\ HttpStatus(c) = 422
        /\ Finished(d) /\ call[d].kind = "URL" /\ "llm" \in call[d].faults
        /\ HttpStatus(d) = 503

\* C9: when analyzeCredibility fails the call fails with that error, its audit
\* row is FAILED, no AnalysisResult is persisted for the call and the call does
\* not populate the cache.
C9_AssessmentFailureIsFatal ==
    \A c \in Calls :
        "llm" \in call[c].faults =>
            /\ call[c].pc \in {"logFailed", "failed"}
            /\ call[c].error = <<"OpenAI", "429 quota exceeded">>
            /\ ResultsBy(c) = {}
            /\ call[c].cacheSets = 0
            /\ \A k \in AuditRowsBy(c) :
                  /\ audit[k].status = "FAILED"
                  /\ audit[k].errorMessage = call[c].error
                  /\ audit[k].resultId = 0
            /\ Finished(c) => Cardinality(AuditRowsBy(c)) = 1

C9_Witness ==
    \E c \in Calls :
        /\ "llm" \in call[c].faults
        /\ call[c].pc = "failed"
        /\ Cardinality(AuditRowsBy(c)) = 1

\* C10: a rejected audit write never changes the outcome: a call returns the
\* cached or fresh result it had decided on, or throws the error it first
\* caught, whether or not its audit write was rejected.
C10_AuditFailureHarmless ==
    \A c \in Calls :
        Finished(c) =>
            CASE call[c].outcome = "cached" ->
                    /\ call[c].pc = "done"
                    /\ call[c].returned =
                          Some(Returned(IF IsSome(call[c].cached)
                                        THEN Get(call[c].cached)
                                        ELSE Get(call[c].result), TRUE))
              [] call[c].outcome = "fresh" ->
                    /\ call[c].pc = "done"
                    /\ call[c].returned = Some(Returned(Get(call[c].result), FALSE))
                    /\ Get(call[c].result).resultId = call[c].analysisResult.id
              [] call[c].outcome = "failed" ->
                    /\ call[c].pc = "failed"
                    /\ call[c].returned = None
                    /\ call[c].error = call[c].firstError
              [] OTHER -> FALSE

C10_Witness ==
    \E c, d \in Calls :
        /\ call[c].auditFailed /\ call[c].pc = "done" /\ call[c].outcome = "fresh"
        /\ call[d].auditFailed /\ call[d].pc = "failed"

\* A call answered from persisted storage: the cache missed and findUnique
\* found an AnalysisResult of the fingerprint's Article.
PersistedHit(c) == call[c].outcome = "cached" /\ ~IsSome(call[c].cached)

PersistedHitSteps == <<"getAnalysis", "article.findUnique", "setAnalysis", "logRequest">>

C12_TextPersistedResultHit ==
    \A c \in Calls :
        (/\ call[c].kind = "TEXT"
         /\ ~IsSome(call[c].cached)
         /\ \E k \in 1 .. Len(results) :
               results[k].articleId = call[c].fp /\ results[k].by = 0) =>
            /\ call[c].analysisResult.id = 0
            /\ ResultsBy(c) = {}
            /\ call[c].pc = "done" =>
                  /\ Get(call[c].returned).cached
                  /\ results[Get(call[c].returned).resultId].by = 0

\* C13: the content-type adjustment leaves the score as it is and fixes the
\* persisted confidence: SATIRE exactly 0, BREAKING min(c, ceiling 0.5), OPINION
\* and NEWS c itself; the adjusted confidence is never greater than c.
C13_ContentTypeAdjustment ==
    unit.phase = "scored" =>
        /\ unit.adjusted = unit.llmScore
        /\ unit.contentType = "SATIRE" => unit.adjConfidence = 0
        /\ unit.contentType = "BREAKING" =>
              /\ unit.adjConfidence <= 50
              /\ unit.adjConfidence \in {unit.confidence, 50}
        /\ unit.contentType \in {"OPINION", "NEWS"} => unit.adjConfidence = unit.confidence
        /\ unit.adjConfidence <= unit.confidence
        /\ Get(unit.result).confidence = unit.adjConfidence
        /\ ~IsSome(unit.mlPrediction) => Get(unit.result).score = unit.llmScore

C13_Witness ==
    /\ unit.phase = "scored"
    /\ unit.contentType = "BREAKING"
    /\ unit.confidence = 100
    /\ Get(unit.result).confidence = 50

\* The messages a formatted result carries.
ResultMessages(r) == {r.overlayMessage, r.warningMessage} \ {Null}

\* C14: for input classified BREAKING the returned result has its confidence
\* capped at the ceiling and carries the breaking-news warning; a result for
\* SATIRE or OPINION content carries its warning too.
C14_WarningAttached ==
    unit.phase = "scored" =>
        /\ unit.contentType = "BREAKING" =>
              /\ Get(unit.result).confidence <= lowConfidenceThreshold
              /\ "breaking" \in ResultMessages(Get(unit.result))
        /\ unit.contentType = "SATIRE" => "satire" \in ResultMessages(Get(unit.result))
        /\ unit.contentType = "OPINION" => "opinion" \in ResultMessages(Get(unit.result))

\* The first token of a text that is not whitespace, if any.
RECURSIVE FirstWord(_)
FirstWord(s) ==
    IF s = << >> THEN Null
    ELSE IF Head(s) \in Whitespace THEN FirstWord(Tail(s)) ELSE Head(s)

IgnoredParams == {"utm_source", "utm_id", "fbclid", "gclid"}

\* A URL without its tracking parameters, upper case and trailing slash.
PlainUrl(u) ==
    [u EXCEPT !.upper = FALSE, !.slash = FALSE,
              !.params = SelectSeq(@, LAMBDA p : p \notin IgnoredParams)]

\* C16: generateUrlHash gives a URL the fingerprint of the same URL without
\* tracking parameters, upper case and trailing slash, also when these are
\* combined (a trailing slash on the path followed by a query string); a
\* malformed URL is hashed from its lower-cased form without raising.
C16_FingerprintStability ==
    (probe.kind = "url" /\ IsSome(probe.out)) =>
        IF probe.input.valid
        THEN Get(probe.out) = generateUrlHash(PlainUrl(probe.input))
        ELSE Get(probe.out) = Sha256(toLowerCase(UrlString(probe.input)))

\* C17: the fingerprint of a raw text is taken after whitespace normalisation:
\* a text and its whitespace-normalised form, which differ only in whitespace,
\* get the same fingerprint.
C17_TextFingerprintNormalised ==
    (probe.kind = "text" /\ IsSome(probe.out)) =>
        Get(probe.out).urlHash = parseText(Get(probe.out).content).urlHash

\* ---- C18
MatchesOf(verifications, i) ==
    {k \in 1 .. Len(verifications) : verifications[k].claimIndex = i}

\* C18: storeClaims creates one ClaimRecord per extracted claim, in extraction
\* order, whatever list of verifications it is given: a verification naming a
\* claim index that was not extracted changes nothing, a claim without a
\* matching verification is stored with isVerified false and confidence 0, a
\* claim with one takes its status, and when the verifier failed every claim is
\* stored UNVERIFIABLE.
C18_OneClaimRecordPerClaim ==
    (probe.kind = "claims" /\ IsSome(probe.out)) =>
        LET n == probe.input.n
            verifications == Get(probe.out).verifications
        IN /\ Len(claims) <= n
           /\ Get(probe.out).returned => Len(claims) = n
           /\ \A k \in 1 .. Len(claims) :
                 LET hits == MatchesOf(verifications, k - 1)
                 IN /\ claims[k].claimText = k - 1
                    /\ claims[k].articleId = "t1"
                    /\ hits = {} =>
                          /\ ~claims[k].isVerified
                          /\ claims[k].confidence = 0
                          /\ claims[k].verificationStatus = "PENDING"
                    /\ hits # {} =>
                          \E j \in hits :
                             /\ claims[k].isVerified = (verifications[j].status = "VERIFIED")
                             /\ claims[k].confidence = verifications[j].confidence
                             /\ verifications[j].status # Null =>
                                   claims[k].verificationStatus = verifications[j].status
                    /\ ~probe.input.response.ok =>
                          /\ claims[k].verificationStatus = "UNVERIFIABLE"
                          /\ ~claims[k].isVerified

\* Two claims were extracted, the verifier answered for the second claim and for
\* a third that does not exist, and storeClaims has returned.
C18_Witness ==
    /\ probe.kind = "claims" /\ IsSome(probe.out) /\ Get(probe.out).returned
    /\ probe.input.n = 2 /\ Len(claims) = 2
    /\ MatchesOf(Get(probe.out).verifications, 2) # {}
    /\ MatchesOf(Get(probe.out).verifications, 0) = {}
    /\ claims[2].isVerified

\* ---- C19
IsPrefix(s, t) == Len(s) <= Len(t) /\ \A k \in 1 .. Len(s) : s[k] = t[k]

\* The operations of performAnalysis after the article is stored, for n claims.
PipelineOrder(n) ==
    <<"extractClaims", "predictFakeNews", "retrieveForClaims", "verifyClaims">>
    \o [k \in 1 .. n |-> "claim.create"]
    \o <<"analyzeCredibility", "blend", "analysisResult.create", "logRequest", "setAnalysis">>

\* What call c invoked from extractClaims on.
PipelineSteps(c) ==
    LET steps == call[c].steps
        from == {k \in 1 .. Len(steps) : steps[k] = "extractClaims"}
    IN IF from = {} THEN << >>
       ELSE SubSeq(steps, CHOOSE k \in from : TRUE, Len(steps))

\* C19: extractClaims and predictFakeNews are both started before either is
\* awaited; retrieveForClaims starts only when both have settled; a failed
\* classifier leaves no secondary prediction and neither of the two ever
\* sends the call to its catch block; the later operations run in the order
\* retrieve, verify, one claim.create per claim, analyzeCredibility, blend,
\* analysisResult.create, logRequest(COMPLETED), setAnalysis.
C19_ParallelThenOrdered ==
    \A c \in Calls :
        LET s == PipelineSteps(c)
            order == PipelineOrder(call[c].extracted)
        IN /\ call[c].pc = "parallel" => s = <<"extractClaims", "predictFakeNews">>
           /\ Len(s) >= 3 => call[c].claimsSettled /\ call[c].mlSettled
           /\ ("ml" \in call[c].faults /\ call[c].mlSettled) => call[c].mlPrediction = None
           /\ \/ IsPrefix(s, order)
              \/ /\ Len(s) >= 3
                 /\ s[Len(s)] = "logRequest"
                 /\ IsPrefix(SubSeq(s, 1, Len(s) - 1), order)
                 /\ s[Len(s) - 1] \in {"claim.create", "analyzeCredibility"}
           /\ (Len(s) > 0 /\ s[Len(s)] = "setAnalysis") =>
                 /\ s = order
                 /\ \E k \in AuditRowsBy(c) :
                       /\ audit[k].status = "COMPLETED"
                       /\ audit[k].resultId = call[c].analysisResult.id
                 /\ call[c].pc = "setCache" => ~call[c].cacheStored

\* A call whose classifier failed went through every operation, with one claim,
\* and returned.
C19_Witness ==
    \E c \in Calls :
        /\ call[c].pc = "done"
        /\ "ml" \in call[c].faults
        /\ call[c].extracted = 1
        /\ PipelineSteps(c) = PipelineOrder(1)

\* ---- C20
C20_AttemptsBounded ==
    /\ queue.executions <= attempts
    /\ queue.state \in {"active", "delayed", "completed", "failed"} => queue.executions >= 1
    /\ queue.state = "failed" =>
          /\ queue.executions = attempts
          /\ queue.data.requestId # 0 =>
                /\ audit[queue.data.requestId].status = "FAILED"
                /\ audit[queue.data.requestId].errorMessage = queue.errors[attempts]
                /\ audit[queue.data.requestId].errorMessage # << >>
    /\ queue.state = "completed" =>
          /\ queue.result \in ResultIds
          /\ queue.data.requestId # 0 =>
                /\ audit[queue.data.requestId].status = "COMPLETED"
                /\ audit[queue.data.requestId].resultId = queue.result

C21_SyncFallback ==
    /\ queue.ctl = "fallback" => queue.state = "none" /\ ~IsSome(queue.response)
    /\ (queue.ctl = "responded") =>
          /\ queue.state = "none" /\ queue.executions = 0
          /\ call[1].kind = "URL" /\ call[1].fp = "u1"
          /\ Finished(1)
          /\ IsSome(queue.response)
          /\ IsSome(call[1].returned) =>
                /\ Get(queue.response).status = 200
                /\ Get(queue.response).data = Get(call[1].returned)
          /\ Get(queue.response).status # 200 =>
                /\ call[1].pc = "failed"
                /\ Get(queue.response).data = call[1].error

\* The backend refused the job and the caller got the fresh result of analyzeUrl.
C21_Witness ==
    /\ queue.ctl = "responded"
    /\ call[1].pc = "done"
    /\ Get(queue.response).status = 200
    /\ ~Get(queue.response).data.cached

\* ---- C22
\* Call c ran while another call of its fingerprint was in flight, missed the
\* cache, and has settled.
RacedPastCache(c) ==
    /\ Finished(c)
    /\ call[c].overlapped
    /\ ~IsSome(call[c].cached)

\* The collaborators whose failure ends a call.
FatalFaults(c) == call[c].faults \ {"ml"}

PersistedFor(f, value) ==
    {k \in 1 .. Len(results) :
        /\ results[k].id = value.resultId
        /\ results[k].articleId = f}

\* C23: every analysis entry of the cache carries the resultId of an
\* AnalysisResult row that exists, belonging to the Article whose urlHash is
\* the entry's key, and shows that row's score; a call that is about to
\* populate the cache holds such a result.
C23_CacheBackedByRows ==
    /\ \A f \in Fingerprints :
          IsSome(cache[f]) =>
              /\ IsSome(articles[f])
              /\ Get(cache[f]).articleId = Get(articles[f]).id
              /\ PersistedFor(f, Get(cache[f])) # {}
              /\ \A k \in PersistedFor(f, Get(cache[f])) :
                    results[k].score = Get(cache[f]).score
    /\ \A c \in Calls :
          call[c].pc \in {"setCache", "setCacheHit"} =>
              PersistedFor(call[c].fp, Get(call[c].result)) # {}

\* The URL's entry was put into the cache by a call that found the persisted
\* row of the other call, whose own setAnalysis the store had refused.
C23_Witness ==
    /\ IsSome(cache["u1"])
    /\ \E c, d \in Calls :
          /\ PersistedHit(c) /\ call[c].cacheStored /\ call[c].pc = "done"
          /\ call[d].outcome = "fresh" /\ call[d].pc = "done" /\ ~call[d].cacheStored

\* ---- C24
\* C24: get and set never throw.  On the in-process maps a get before the ttl
\* of the key's last set is over returns the value set, and a get after it is
\* over returns null and leaves no entry (a key never set gives null); when
\* the external store raises, get returns null and set returns false.
C24_CacheNeverThrows ==
    probe.kind = "cache" =>
        LET last == probe.last
            w == probe.written[last.key]
        IN /\ ~last.threw
           /\ (last.op = "get" /\ ~probe.input.redis) =>
                 /\ ~IsSome(w) => last.value = None
                 /\ (IsSome(w) /\ last.at < Get(w).at + Get(w).ttl) =>
                       last.value = Some(Get(w).value)
                 /\ (IsSome(w) /\ last.at > Get(w).at + Get(w).ttl) =>
                       /\ last.value = None
                       /\ probe.localCache[last.key] = None
                       /\ probe.localCacheTTL[last.key] = None
           /\ (last.op = "set" /\ ~probe.input.redis) => last.returned
           /\ (last.op = "get" /\ probe.input.redis /\ ~last.ok) => last.value = None
           /\ (last.op = "set" /\ probe.input.redis /\ ~last.ok) => ~last.returned

\* On the in-process maps a key was set, its ttl went by, and the get that
\* followed returned null and removed the entry.
C24_Witness ==
    /\ probe.kind = "cache" /\ ~probe.input.redis
    /\ probe.last.op = "get"
    /\ IsSome(probe.written[probe.last.key])
    /\ probe.last.at > Get(probe.written[probe.last.key]).at
                        + Get(probe.written[probe.last.key]).ttl
    /\ probe.last.value = None
    /\ probe.localCache[probe.last.key] = None

\* ---- C25
\* C25: in every AnalysisResult row verifiedClaims is at most factualClaims and
\* equals the number of Claim rows of the same run stored with isVerified
\* true, whatever list of verifications the verifier handed back.
C25_VerifiedCountMatchesRows ==
    \A k \in 1 .. Len(results) :
        /\ results[k].verifiedClaims <= results[k].factualClaims
        /\ results[k].verifiedClaims =
              Cardinality({j \in 1 .. Len(claims) :
                              claims[j].by = results[k].by /\ claims[j].isVerified})

\* ---- C26
\* The ids of the Claim rows created by the run that created AnalysisResult id.
ClaimsOfRun(resultId) ==
    LET own == SelectSeq([k \in 1 .. Len(claims) |-> claims[k]],
                         LAMBDA row : \E k \in 1 .. Len(results) :
                                         results[k].id = resultId /\ results[k].by = row.by)
    IN [k \in 1 .. Len(own) |-> own[k].id]

DetailsMatch(value) ==
    /\ Len(value.claimDetails) = value.claimsTotal
    /\ value.claimDetails = ClaimsOfRun(value.resultId)

\* C26: every result handed out for an AnalysisResult - returned by a call
\* (fresh, cache hit, persisted-result hit) or read by getAnalysis / the status
\* poll - lists in claims.details exactly claims.total entries, the Claim rows
\* created by the run that created that AnalysisResult.
C26_DetailsAreTheRunsClaims ==
    /\ \A c \in Calls : IsSome(call[c].returned) => DetailsMatch(Get(call[c].returned))
    /\ \A k \in 1 .. Len(results) : DetailsMatch(Get(getAnalysis(results[k].id)))

\* ---- C27
\* factualClaims summed over the first n AnalysisResult rows of Article f.
RECURSIVE FactualClaimsUpTo(_, _)
FactualClaimsUpTo(f, n) ==
    IF n = 0 THEN 0
    ELSE FactualClaimsUpTo(f, n - 1)
         + (IF results[n].articleId = f THEN results[n].factualClaims ELSE 0)

\* C27: whenever no analysis of a fingerprint is running, its Article has as
\* many Claim rows as its AnalysisResults count in factualClaims: a run that
\* failed has left no Claim row.
C27_NoClaimsOfFailedRuns ==
    \A f \in Fingerprints :
        (\A c \in Calls : InFlight(c) => call[c].fp # f) =>
            Len(ClaimsOfArticle(f)) = FactualClaimsUpTo(f, Len(results))

\* ---- C28
\* The job of the async request can still run: a retry is scheduled or running.
RetryPending == queue.state \in {"waiting", "delayed", "active"}

\* C28: the status poll of an async request reports FAILED only once no retry of
\* its job is pending, and a request reported FAILED is reported FAILED ever
\* after.
C28_FailedIsTerminal ==
    /\ [](queue.data.requestId # 0 =>
            (getAnalysisStatus(queue.data.requestId).status = "FAILED" => ~RetryPending))
    /\ [][queue.data.requestId # 0 =>
            (getAnalysisStatus(queue.data.requestId).status = "FAILED" =>
                audit'[queue.data.requestId].status = "FAILED")]_vars

\* ---- C29
\* The AnalysisRequest row of the async request has left PENDING.
RequestSettled ==
    /\ queue.data.requestId # 0
    /\ getAnalysisStatus(queue.data.requestId).status \in {"COMPLETED", "FAILED"}

\* C29: the row asyncAnalyzeUrl created with status PENDING eventually reaches
\* COMPLETED or FAILED, whether the job was queued or the request was served by
\* the synchronous fallback.
C29_PendingSettles == (queue.ctl = "created") ~> RequestSettled

\* ---- C30
\* C30: whenever no analysis of a fingerprint is in flight, a cache entry of the
\* fingerprint holds the resultId of the most recently created AnalysisResult
\* of its Article, the one a persisted-result lookup returns.
C30_CacheIsLatestResult ==
    \A f \in Fingerprints :
        ((\A c \in Calls : InFlight(c) => call[c].fp # f) /\ IsSome(cache[f])) =>
            /\ IsSome(articles[f])
            /\ IsSome(LatestResult(Get(articles[f]).id))
            /\ Get(cache[f]).resultId = Get(LatestResult(Get(articles[f]).id)).id

====
